---- MODULE Spec2Model ----
(***************************************************************************)
(* A model of the large-image LOD renderer of bin-world: the pyramid       *)
(* descriptor (docs/image-lod- base.md, ImageProcessor), the WebGL         *)
(* renderer and its chunk cache (ImageRenderer), the LRU clean-up          *)
(* (MemoryManager of the base document) and the tiered memory manager of   *)
(* the advanced-features document.                                         *)
(*                                                                         *)
(* Numbers are integers.  A zoom is a positive rational <<num, den>>; a    *)
(* level's scale 1 / 2^level is kept as its denominator.  A chunk key is   *)
(* the tuple <<level, x, y>>, which is what the string                     *)
(* `${level}-${x}-${y}` distinguishes.                                     *)
(***************************************************************************)
EXTENDS Integers, Sequences, FiniteSets, TLC

VARIABLES
    imageMetadata,    \* ImageRenderer.imageMetadata.levels
    viewport,         \* the caller's viewport, handed to render each frame
    chunkCache,       \* ImageRenderer.chunkCache: chunk key -> texture
    loadingChunks,    \* ImageRenderer.loadingChunks
    inFlight,         \* chunk key -> number of loadChunk calls awaiting their fetch
    createdTextures,  \* every texture gl.createTexture has returned
    deletedTextures,  \* every texture gl.deleteTexture has been given
    frame,            \* the latest frame: its visible chunks and the keys it drew
    lastFailed,       \* the key of the latest failed fetch, <<>> before any (history)
    currentCacheSize, \* MemoryManager.currentCacheSize
    accessTimes,      \* MemoryManager.accessTimes, in the Map's insertion order
    now,              \* the clock Date.now() reads
    lastOp,           \* the operation that led to this state, and what it did
    cullInput,        \* the viewport handed to render's first two steps
    cullResult,       \* the level and chunks they computed
    cpuMemoryUsed,    \* tiered MemoryManager.cpuMemoryUsed
    gpuMemoryUsed,    \* tiered MemoryManager.gpuMemoryUsed
    gpuTextureCount,  \* tiered MemoryManager.gpuTextureCount
    lruList,          \* tiered MemoryManager.lruList, least recently used first
    chunkMeta,        \* the ChunkMetadata objects: buffer, size, state, texture
    suspended,        \* the allocate calls waiting at their await
    calls,            \* the number of allocate calls made so far
    source,           \* the file at the path posted to /api/process-image
    responses,        \* the responses of the process-image calls, in order
    built,            \* pyramid_levels and chunks_data of the last run
    storage,          \* the chunks save_chunks has written
    preloadQueue,     \* PreloadManager.preloadQueue
    currentLoads,     \* PreloadManager.currentLoads
    preloading,       \* the chunks the processPreloadQueue loops are awaiting
    movementHistory,  \* ChunkPredictor.movementHistory
    arrivals,         \* every sample recordMovement was given, in order (history)
    predicted,        \* the chunks the latest prediction returned, and who made it
    imageId,          \* ImageRenderer.imageMetadata.image_id
    startedFor,       \* chunk key -> the image_id in the URL of its pending fetch
    fetchedFor,       \* texture -> the image_id its pixels were fetched for (history)
    devPc,            \* scripts/dev.sh: the command it runs next
    port5173,         \* what listens on localhost:5173
    port8080,         \* what listens on localhost:8080
    frontendJob,      \* the background job frontend/scripts/dev.sh
    backendJob,       \* the background job backend/dev.sh
    desktopApp,       \* the desktop.sh command of scripts/dev.sh
    devLog,           \* what scripts/dev.sh has done, in order (history)
    frustumPlanes,    \* FrustumCuller.frustumPlanes
    visibleRegion,    \* the region the frustum was extracted for (history)
    visibility,       \* the latest isChunkVisible call: its chunk and its result
    lastFrameTime,    \* LODManager.lastFrameTime
    frameHistory,     \* LODManager.frameHistory
    lodResult,        \* the latest updateLOD call: its zoom and what it returned
    tauriInjected,    \* window.__TAURI__ and window.__TAURI_IPC__ are set
    tauriLoaded,      \* App.vue: tauriLoaded
    received,         \* the message events handleMessage was called with (history)
    awaiting,         \* the handleMessage calls waiting for dialog.open
    apiCalls,         \* the Tauri API calls made, in order (history)
    replies           \* the messages posted back to event.source, in order (history)

rendererVars == <<viewport, chunkCache, loadingChunks, inFlight,
                  createdTextures, deletedTextures, frame, lastFailed>>

managerVars == <<currentCacheSize, accessTimes, now>>

cullVars == <<cullInput, cullResult>>

procVars == <<source, responses, built, storage>>

tierVars == <<cpuMemoryUsed, gpuMemoryUsed, gpuTextureCount, lruList,
              chunkMeta, suspended, calls>>

vars == <<imageMetadata, viewport, chunkCache, loadingChunks, inFlight,
          createdTextures, deletedTextures, frame, lastFailed, currentCacheSize,
          accessTimes, now, lastOp, cullInput, cullResult, cpuMemoryUsed,
          gpuMemoryUsed, gpuTextureCount, lruList, chunkMeta, suspended, calls,
          source, responses, built, storage, preloadQueue, currentLoads,
          preloading, movementHistory, arrivals, predicted, imageId,
          startedFor, fetchedFor, devPc, port5173, port8080, frontendJob,
          backendJob, desktopApp, devLog, frustumPlanes, visibleRegion,
          visibility, lastFrameTime, frameHistory, lodResult, tauriInjected,
          tauriLoaded, received, awaiting, apiCalls, replies>>

preloadVars == <<preloadQueue, currentLoads, preloading>>

predictVars == <<movementHistory, arrivals, predicted>>

identityVars == <<imageId, startedFor, fetchedFor>>

devVars == <<devPc, port5173, port8080, frontendJob, backendJob, desktopApp,
            devLog>>

frustumVars == <<frustumPlanes, visibleRegion, visibility>>

lodVars == <<lastFrameTime, frameHistory, lodResult>>

shellVars == <<tauriInjected, tauriLoaded, received, awaiting, apiCalls, replies>>

\* the development script, the frustum culler, the LOD manager and the
\* desktop shell
sideVars == <<devVars, frustumVars, lodVars, shellVars>>

\* the variables of the components beside the renderer and its managers,
\* and the image the renderer's fetches are made for
auxVars == <<preloadVars, predictVars, identityVars, sideVars>>

\* the variables of the renderer, its managers and the image ingestion
coreVars == <<imageMetadata, lastOp, rendererVars, managerVars, cullVars,
              tierVars, procVars>>

\* a constructed PreloadManager
IdlePreload ==
    /\ preloadQueue = <<>>
    /\ currentLoads = 0
    /\ preloading = <<>>

\* a constructed ChunkPredictor, and no prediction made
IdlePredict ==
    /\ movementHistory = <<>>
    /\ arrivals = <<>>
    /\ predicted = [by |-> "none", chunks |-> <<>>]

\* the renderer initialized with the one image, and nothing fetched
IdleIdentity ==
    /\ imageId = "image-id"
    /\ startedFor = <<>>
    /\ fetchedFor = <<>>

\* scripts/dev.sh not run, and nothing listening
IdleDev ==
    /\ devPc = "notRun"
    /\ port5173 = "free"
    /\ port8080 = "free"
    /\ frontendJob = "none"
    /\ backendJob = "none"
    /\ desktopApp = "none"
    /\ devLog = <<>>

\* a constructed FrustumCuller: updateFrustum not called yet
IdleFrustum ==
    /\ frustumPlanes = <<>>
    /\ visibleRegion = <<>>
    /\ visibility = [chunk |-> <<>>, visible |-> FALSE]

\* a constructed LODManager
IdleLod ==
    /\ lastFrameTime = 0
    /\ frameHistory = <<>>
    /\ lodResult = [zoom |-> <<>>, lod |-> 0]

\* App.vue set up, not mounted: no message handled
IdleShell ==
    /\ tauriInjected = FALSE
    /\ tauriLoaded = FALSE
    /\ received = <<>>
    /\ awaiting = {}
    /\ apiCalls = <<>>
    /\ replies = <<>>

IdleAux ==
    /\ IdlePreload
    /\ IdlePredict
    /\ IdleIdentity
    /\ IdleDev
    /\ IdleFrustum
    /\ IdleLod
    /\ IdleShell

\* ------------------------------------------------------------ bounds

\* The chunks handed to the tiered memory manager.
NumTierChunks == 3

\* The allocate calls made in one run of the tiered memory manager.
MaxCalls == 7

\* CPU_MEMORY_LIMIT counted in chunks (200 in the source: 200 MB at
\* 512 * 512 * 4 bytes a chunk).
CpuLimitChunks == 2

\* GPU_MEMORY_LIMIT counted in chunks (500 in the source).
GpuLimitChunks == 2

\* GPU_TEXTURE_LIMIT (1000 in the source): like the source's, above the
\* number of chunks the GPU byte budget holds.
GpuTextureLimit == 3

\* ChunkPredictor.historyLimit (10 in the source).
HistoryLimit == 2

\* The recordMovement calls made on one ChunkPredictor.
MaxMoves == 4

\* The longest preloadQueue a schedulePreload call may leave behind.
MaxQueueLen == 3

\* The process-image calls made on one source file.
MaxRuns == 2

\* Largest value of the millisecond clock read by Date.now().
MaxTime == 2

\* The cache ceiling maxCacheSize counted in chunks (100 in the document,
\* 100 * 1024 * 1024 bytes at 512 * 512 * 4 bytes a chunk).
MaxCacheChunks == 2

\* ------------------------------------------------- program constants

\* ImageProcessor.chunk_size
ChunkSize == 512

\* ImageProcessor.min_size
MinSize == 256

\* ------------------------------------------------------- arithmetic

Min(a, b) == IF a <= b THEN a ELSE b

Max(a, b) == IF a >= b THEN a ELSE b

RECURSIVE Pow2(_)
Pow2(n) == IF n <= 0 THEN 1 ELSE 2 * Pow2(n - 1)

\* Math.floor(a / b) for b > 0
FloorDiv(a, b) == IF a >= 0 THEN a \div b ELSE -((-a + b - 1) \div b)

\* Math.ceil(a / b) for b > 0
CeilDiv(a, b) == -FloorDiv(-a, b)

\* ------------------------------------------------- pyramid descriptor

\* resize_image(current, scale=0.5): one side of the half-size image
HalfSide(n) == n \div 2

\* generate_pyramid: the <<width, height>> of each level, level 0 first
\* A variant of KeepsHalving that also keeps an image exactly min_size wide.
KeepsHalvingInclusive(w, h) == Min(w, h) >= MinSize

\* generate_pyramid: the loop test
KeepsHalving(w, h) == Min(w, h) > MinSize

RECURSIVE PyramidSizes(_, _)
PyramidSizes(w, h) ==
    IF KeepsHalving(w, h)
    THEN <<<<w, h>>>> \o PyramidSizes(HalfSide(w), HalfSide(h))
    ELSE <<>>

\* split_into_chunks: the chunk grid of one level's image
ChunksAlong(side) == CeilDiv(side, ChunkSize)

\* A variant of split_into_chunks that does not clip the chunks of the last
\* row and column.
split_unclipped(level, w, h) ==
    LET chunks_x == ChunksAlong(w)
        chunks_y == ChunksAlong(h)
    IN  [ i \in 1..(chunks_x * chunks_y) |->
            [ level    |-> level,
              x        |-> (i - 1) % chunks_x,
              y        |-> (i - 1) \div chunks_x,
              actual_x |-> ((i - 1) % chunks_x) * ChunkSize,
              actual_y |-> ((i - 1) \div chunks_x) * ChunkSize,
              width    |-> ChunkSize,
              height   |-> ChunkSize ] ]

\* split_into_chunks: the chunk list of one level, row by row (the pixel
\* data of a chunk is left out)
split_into_chunks(level, w, h) ==
    LET chunks_x == ChunksAlong(w)
        chunks_y == ChunksAlong(h)
    IN  [ i \in 1..(chunks_x * chunks_y) |->
            LET x == (i - 1) % chunks_x
                y == (i - 1) \div chunks_x
                actual_x == x * ChunkSize
                actual_y == y * ChunkSize
            IN  [ level    |-> level,
                  x        |-> x,
                  y        |-> y,
                  actual_x |-> actual_x,
                  actual_y |-> actual_y,
                  width    |-> Min(ChunkSize, w - actual_x),
                  height   |-> Min(ChunkSize, h - actual_y) ] ]

\* max(...) over a non-empty set of integers
MaxOf(S) == CHOOSE m \in S : \A n \in S : n <= m

\* generate_metadata: one level's entry, from the level's chunk list.  The
\* reported width and height are read off the level's first chunk
\* (actual_x + width of chunk (0, 0)).
LevelMetadataOf(level, chunk_list) ==
    LET level_info == chunk_list[1]
        max_x == MaxOf({ chunk_list[i].x : i \in DOMAIN chunk_list })
        max_y == MaxOf({ chunk_list[i].y : i \in DOMAIN chunk_list })
    IN  [ level       |-> level,
          width       |-> level_info.actual_x + level_info.width,
          height      |-> level_info.actual_y + level_info.height,
          scaleDen    |-> Pow2(level),
          chunk_size  |-> ChunkSize,
          chunks_x    |-> max_x + 1,
          chunks_y    |-> max_y + 1,
          chunk_count |-> Len(chunk_list) ]

\* generate_metadata: the entry of the level whose image is w x h
LevelMetadata(level, w, h) ==
    LevelMetadataOf(level, split_into_chunks(level, w, h))

\* generate_metadata: the levels array of the descriptor of a w x h image
MetadataLevels(w, h) ==
    LET sizes == PyramidSizes(w, h)
    IN  [ i \in 1..Len(sizes) |->
            LevelMetadata(i - 1, sizes[i][1], sizes[i][2]) ]

\* ------------------------------------------------ image ingestion

\* generate_pyramid: the levels list (the image of a level is left out)
generate_pyramid(w, h) ==
    LET sizes == PyramidSizes(w, h)
    IN  [ i \in 1..Len(sizes) |->
            [ level    |-> i - 1,
              width    |-> sizes[i][1],
              height   |-> sizes[i][2],
              scaleDen |-> Pow2(i - 1) ] ]

\* split_into_chunks over all levels: chunks[level] is entry level + 1
chunks_of(pyramid_levels) ==
    [ i \in DOMAIN pyramid_levels |->
        split_into_chunks(pyramid_levels[i].level,
                          pyramid_levels[i].width, pyramid_levels[i].height) ]

RECURSIVE SumLens(_)
SumLens(seqs) ==
    IF seqs = <<>> THEN 0 ELSE Len(Head(seqs)) + SumLens(Tail(seqs))

\* generate_image_id(): the identifier of the processed image
generate_image_id == "image-id"

\* generate_metadata(chunks_data), with time.time() - self.start_time = elapsed
generate_metadata(chunks_data, elapsed) ==
    [ image_id        |-> generate_image_id,
      levels          |-> [ i \in DOMAIN chunks_data |->
                              LevelMetadataOf(chunks_data[i][1].level, chunks_data[i]) ],
      total_chunks    |-> SumLens(chunks_data),
      chunk_size      |-> ChunkSize,
      processing_time |-> elapsed ]

\* the widths and heights of the source images handed to process-image;
\* 0 stands for a file that decodes to an image of no area
SourceWidths == {0, 200, 256, 257, 512, 513, 1024, 1536, 4096}

SourceHeights == {0, 256, 300, 600, 1100, 4096}

\* the files a posted path can name: an image, a file that is no image,
\* and no file at all
Sources ==
    [ kind : {"image"}, width : SourceWidths, height : SourceHeights ]
    \cup { [kind |-> "undecodable", width |-> 0, height |-> 0],
           [kind |-> "missing", width |-> 0, height |-> 0] }

\* load_image(image_path): raises for a file that is no image or has no area
load_image(src) ==
    IF src.kind = "image" /\ src.width * src.height > 0
    THEN [raised |-> FALSE, width |-> src.width, height |-> src.height]
    ELSE [raised |-> TRUE, message |-> "InvalidImage"]

\* the chunks save_chunks writes, by level and grid position
save_chunks(chunks_data) ==
    UNION { { <<chunks_data[i][j].level, chunks_data[i][j].x, chunks_data[i][j].y>> :
                j \in DOMAIN chunks_data[i] } : i \in DOMAIN chunks_data }

NothingBuilt == [pyramid_levels |-> <<>>, chunks_data |-> <<>>]

\* A variant of OnException that answers an exception with a success.
OnExceptionSwallowed(message) ==
    [status |-> "success", code |-> 200, message |-> message]

\* process_image, the except clause: status error with the message
OnException(message) ==
    [status |-> "error", code |-> 500, message |-> message]

\* process_image, the test of the posted path
InvalidPath(src) == src.kind = "missing"

\* no process-image call was made
IdleProcessor ==
    /\ source = [kind |-> "missing", width |-> 0, height |-> 0]
    /\ responses = <<>>
    /\ built = NothingBuilt
    /\ storage = {}

\* POST /api/process-image: process_image and the process_large_image it
\* runs, which takes elapsed seconds
ProcessImage(elapsed) ==
    /\ Len(responses) < MaxRuns
    /\ IF InvalidPath(source)
       THEN /\ responses' = Append(responses,
                    [status |-> "error", code |-> 400, message |-> "Invalid file path"])
            /\ UNCHANGED <<built, storage>>
       ELSE LET original_image == load_image(source)
            IN  IF original_image.raised
                THEN /\ responses' = Append(responses, OnException(original_image.message))
                     /\ UNCHANGED <<built, storage>>
                ELSE LET pyramid_levels == generate_pyramid(original_image.width,
                                                            original_image.height)
                         chunks_data == chunks_of(pyramid_levels)
                         metadata == generate_metadata(chunks_data, elapsed)
                     IN  /\ built' = [pyramid_levels |-> pyramid_levels,
                                      chunks_data |-> chunks_data]
                         /\ storage' = storage \cup save_chunks(chunks_data)
                         /\ responses' = Append(responses,
                                [ status          |-> "success",
                                  code            |-> 200,
                                  image_id        |-> metadata.image_id,
                                  levels          |-> metadata.levels,
                                  total_chunks    |-> metadata.total_chunks,
                                  chunk_size      |-> metadata.chunk_size,
                                  processing_time |-> metadata.processing_time ])
    /\ UNCHANGED <<source, imageMetadata, lastOp>>
    /\ UNCHANGED rendererVars
    /\ UNCHANGED managerVars
    /\ UNCHANGED cullVars
    /\ UNCHANGED tierVars
    /\ UNCHANGED auxVars

\* ------------------------------------------------ LOD and culling

\* max(0, Math.floor(-Math.log2(zoom))) for zoom = num / den > 0: the
\* largest k >= 0 with zoom <= 2^-k, and 0 when zoom > 1.
RECURSIVE CoarserSteps(_, _)
CoarserSteps(num, den) ==
    IF 2 * num <= den THEN 1 + CoarserSteps(2 * num, den) ELSE 0

\* ImageRenderer.calculateLOD
calculateLOD(zoom, levels) ==
    LET targetLevel == Max(0, CoarserSteps(zoom[1], zoom[2]))
    IN  Min(targetLevel, Len(levels) - 1)

\* ImageRenderer.getChunkKey
getChunkKey(chunk) == <<chunk.level, chunk.x, chunk.y>>

\* A variant of ClampEnd that forgets the upper clamp.
ClampEndUnclamped(count, idx) == idx

\* getVisibleChunks: Math.min(levelData.chunks_x - 1, ...) of endX and endY
ClampEnd(count, idx) == Min(count - 1, idx)

\* ImageRenderer.getVisibleChunks.  levels[level] of the source is
\* levels[level + 1] here; a level outside the array yields no chunk.
getVisibleChunks(vp, level, levels) ==
    IF ~(level + 1 \in DOMAIN levels) THEN {}
    ELSE
      LET levelData == levels[level + 1]
          unit   == levelData.chunk_size * levelData.scaleDen
          startX == Max(0, FloorDiv(vp.x, unit))
          startY == Max(0, FloorDiv(vp.y, unit))
          endX   == ClampEnd(levelData.chunks_x, CeilDiv(vp.x + vp.width, unit))
          endY   == ClampEnd(levelData.chunks_y, CeilDiv(vp.y + vp.height, unit))
      IN  { [level |-> level, x |-> x, y |-> y] :
              x \in startX..endX, y \in startY..endY }

\* ------------------------------------------------ ImageRenderer

\* The image the renderer specifications show: two levels, a 2 x 2 grid of
\* chunks at level 0 and one chunk at level 1.
RenderImage == <<1024, 1024>>

\* the viewports the caller moves to: off the image to the left and over
\* its lower right chunk, at zoom 1 and zoom 1/2
RenderViewports ==
    [ x : {-1000, 600}, y : {600}, width : {400}, height : {400},
      zoom : { <<1, 1>>, <<1, 2>> } ]

NoOp == [op |-> "init"]

NoFrame == [visible |-> {}, drawn |-> {}]

\* the viewport of the usage example: the canvas at the origin, zoom 1.0
CanvasViewport == [x |-> 0, y |-> 0, width |-> 400, height |-> 400, zoom |-> <<1, 1>>]

\* the state of a constructed ImageRenderer and MemoryManager
InitRenderer ==
    /\ viewport = CanvasViewport
    /\ chunkCache = <<>>
    /\ loadingChunks = {}
    /\ inFlight = <<>>
    /\ createdTextures = {}
    /\ deletedTextures = {}
    /\ frame = NoFrame
    /\ lastFailed = <<>>
    /\ currentCacheSize = 0
    /\ accessTimes = <<>>
    /\ now = 0
    /\ lastOp = NoOp

IdleCull ==
    /\ cullInput = CanvasViewport
    /\ cullResult = [level |-> -1, chunks |-> {}, done |-> TRUE]

\* ---------------------------- MemoryManager (advanced-features document)

\* MemoryManager.BASE_CHUNK_MEMORY
BASE_CHUNK_MEMORY == ChunkSize * ChunkSize * 4

CPU_MEMORY_LIMIT == CpuLimitChunks * BASE_CHUNK_MEMORY

GPU_MEMORY_LIMIT == GpuLimitChunks * BASE_CHUNK_MEMORY

GPU_TEXTURE_LIMIT == GpuTextureLimit

TierChunks == 1..NumTierChunks

\* a ChunkMetadata nothing was allocated for
UnloadedChunk == [buffer |-> FALSE, size |-> 0, state |-> "UNLOADED", texture |-> FALSE]

\* the state of a constructed tiered MemoryManager
InitTier ==
    /\ cpuMemoryUsed = 0
    /\ gpuMemoryUsed = 0
    /\ gpuTextureCount = 0
    /\ lruList = <<>>
    /\ chunkMeta = [c \in TierChunks |-> UnloadedChunk]
    /\ suspended = {}
    /\ calls = 0

\* calculateMemoryNeeded(chunk): the bytes of a full chunk
calculateMemoryNeeded(c) == BASE_CHUNK_MEMORY

\* a sequence without its i-th element
RemoveAt(seq, i) == [ j \in 1..(Len(seq) - 1) |-> IF j < i THEN seq[j] ELSE seq[j + 1] ]

\* a sequence without the element c
Without(seq, c) == SelectSeq(seq, LAMBDA e : e # c)

\* updateLRU(chunk): the chunk becomes the most recently used
updateLRU(lru, c) == Append(Without(lru, c), c)

\* freeCPUMemory(memoryNeeded): buffers are released least recently used
\* first until memoryNeeded bytes fit under the limit or no chunk holds a
\* buffer; a chunk left with neither buffer nor texture leaves the LRU
\* list.
RECURSIVE freeCPUMemory(_, _, _, _)
freeCPUMemory(meta, used, lru, needed) ==
    LET holders == { i \in 1..Len(lru) : meta[lru[i]].buffer }
    IN  IF used + needed <= CPU_MEMORY_LIMIT \/ holders = {}
        THEN [meta |-> meta, used |-> used, lru |-> lru]
        ELSE LET i == CHOOSE i \in holders : \A j \in holders : i <= j
                 c == lru[i]
             IN  freeCPUMemory(
                   [meta EXCEPT ![c].buffer = FALSE,
                                ![c].state = IF meta[c].texture THEN "GPU_TEXTURE" ELSE "UNLOADED"],
                   used - meta[c].size,
                   IF meta[c].texture THEN lru ELSE RemoveAt(lru, i),
                   needed)

\* freeGPUMemory(size): textures are deleted least recently used first
\* until one more texture of size bytes fits under both GPU limits or no
\* chunk holds a texture; a chunk that still holds its buffer is demoted
\* to CPU_MEMORY, any other leaves the LRU list.
RECURSIVE freeGPUMemory(_, _, _, _, _)
freeGPUMemory(meta, used, count, lru, size) ==
    LET holders == { i \in 1..Len(lru) : meta[lru[i]].texture }
    IN  IF (count < GPU_TEXTURE_LIMIT /\ used + size <= GPU_MEMORY_LIMIT) \/ holders = {}
        THEN [meta |-> meta, used |-> used, count |-> count, lru |-> lru]
        ELSE LET i == CHOOSE i \in holders : \A j \in holders : i <= j
                 c == lru[i]
             IN  freeGPUMemory(
                   [meta EXCEPT ![c].texture = FALSE,
                                ![c].state = IF meta[c].buffer THEN "CPU_MEMORY" ELSE "UNLOADED"],
                   used - meta[c].size,
                   count - 1,
                   IF meta[c].buffer THEN lru ELSE RemoveAt(lru, i),
                   size)

\* allocateMemory: the test that sends the call to freeCPUMemory
CpuOverLimit(used, needed) == used + needed > CPU_MEMORY_LIMIT

\* allocateGPUMemory: the test that sends the call to freeGPUMemory
GpuOverLimit(used, count, size) ==
    count >= GPU_TEXTURE_LIMIT \/ used + size > GPU_MEMORY_LIMIT

\* allocateMemory, the try block: the buffer is attached and counted
CommitCpu(c) ==
    /\ chunkMeta' = [chunkMeta EXCEPT ![c].buffer = TRUE,
                                      ![c].size = calculateMemoryNeeded(c),
                                      ![c].state = "CPU_MEMORY"]
    /\ cpuMemoryUsed' = cpuMemoryUsed + calculateMemoryNeeded(c)
    /\ lruList' = updateLRU(lruList, c)

\* allocateMemory(chunk, buffer), up to its await or, when the buffer
\* fits, to its end
AllocateMemory(c) ==
    /\ calls < MaxCalls
    /\ ~([op |-> "allocateMemory", chunk |-> c] \in suspended)
    /\ calls' = calls + 1
    /\ IF CpuOverLimit(cpuMemoryUsed, calculateMemoryNeeded(c))
       THEN LET freed == freeCPUMemory(chunkMeta, cpuMemoryUsed, lruList,
                                       calculateMemoryNeeded(c))
            IN  /\ chunkMeta' = freed.meta
                /\ cpuMemoryUsed' = freed.used
                /\ lruList' = freed.lru
                /\ suspended' = suspended \cup {[op |-> "allocateMemory", chunk |-> c]}
       ELSE /\ CommitCpu(c)
            /\ UNCHANGED suspended
    /\ UNCHANGED <<gpuMemoryUsed, gpuTextureCount, imageMetadata, lastOp>>
    /\ UNCHANGED rendererVars
    /\ UNCHANGED managerVars
    /\ UNCHANGED cullVars
    /\ UNCHANGED procVars
    /\ UNCHANGED auxVars

\* allocateMemory after `await this.freeCPUMemory(memoryNeeded)`
ResumeAllocateMemory(c) ==
    /\ [op |-> "allocateMemory", chunk |-> c] \in suspended
    /\ suspended' = suspended \ {[op |-> "allocateMemory", chunk |-> c]}
    /\ CommitCpu(c)
    /\ UNCHANGED <<gpuMemoryUsed, gpuTextureCount, calls, imageMetadata, lastOp>>
    /\ UNCHANGED rendererVars
    /\ UNCHANGED managerVars
    /\ UNCHANGED cullVars
    /\ UNCHANGED procVars
    /\ UNCHANGED auxVars

\* allocateGPUMemory, the try block: the texture is created and counted
CommitGpu(c) ==
    /\ chunkMeta' = [chunkMeta EXCEPT ![c].texture = TRUE,
                                      ![c].state = "GPU_TEXTURE"]
    /\ gpuMemoryUsed' = gpuMemoryUsed + chunkMeta[c].size
    /\ gpuTextureCount' = gpuTextureCount + 1
    /\ lruList' = updateLRU(lruList, c)

\* allocateGPUMemory(chunk), up to its await or, when the texture fits or
\* the chunk is not CPU-resident, to its end
AllocateGPUMemory(c) ==
    /\ calls < MaxCalls
    /\ ~([op |-> "allocateGPUMemory", chunk |-> c] \in suspended)
    /\ calls' = calls + 1
    /\ IF ~chunkMeta[c].buffer \/ chunkMeta[c].state # "CPU_MEMORY"
       THEN UNCHANGED <<chunkMeta, gpuMemoryUsed, gpuTextureCount, lruList, suspended>>
       ELSE IF GpuOverLimit(gpuMemoryUsed, gpuTextureCount, chunkMeta[c].size)
       THEN LET freed == freeGPUMemory(chunkMeta, gpuMemoryUsed, gpuTextureCount,
                                       lruList, chunkMeta[c].size)
            IN  /\ chunkMeta' = freed.meta
                /\ gpuMemoryUsed' = freed.used
                /\ gpuTextureCount' = freed.count
                /\ lruList' = freed.lru
                /\ suspended' = suspended \cup {[op |-> "allocateGPUMemory", chunk |-> c]}
       ELSE /\ CommitGpu(c)
            /\ UNCHANGED suspended
    /\ UNCHANGED <<cpuMemoryUsed, imageMetadata, lastOp>>
    /\ UNCHANGED rendererVars
    /\ UNCHANGED managerVars
    /\ UNCHANGED cullVars
    /\ UNCHANGED procVars
    /\ UNCHANGED auxVars

\* allocateGPUMemory after `await this.freeGPUMemory(chunk.size)`
ResumeAllocateGPUMemory(c) ==
    /\ [op |-> "allocateGPUMemory", chunk |-> c] \in suspended
    /\ suspended' = suspended \ {[op |-> "allocateGPUMemory", chunk |-> c]}
    /\ CommitGpu(c)
    /\ UNCHANGED <<cpuMemoryUsed, calls, imageMetadata, lastOp>>
    /\ UNCHANGED rendererVars
    /\ UNCHANGED managerVars
    /\ UNCHANGED cullVars
    /\ UNCHANGED procVars
    /\ UNCHANGED auxVars

InitTierSpec ==
    /\ IdleProcessor
    /\ IdleAux
    /\ imageMetadata = <<>>
    /\ InitRenderer
    /\ IdleCull
    /\ InitTier

NextTier ==
    \/ \E c \in TierChunks : AllocateMemory(c)
    \/ \E c \in TierChunks : ResumeAllocateMemory(c)
    \/ \E c \in TierChunks : AllocateGPUMemory(c)
    \/ \E c \in TierChunks : ResumeAllocateGPUMemory(c)

SpecTier == InitTierSpec /\ [][NextTier]_vars

\* C8: the three ceilings hold after any allocate calls: the CPU bytes,
\* the GPU bytes and the number of GPU textures stay within their limits.
C8_WithinLimits ==
    /\ cpuMemoryUsed <= CPU_MEMORY_LIMIT
    /\ gpuMemoryUsed <= GPU_MEMORY_LIMIT
    /\ gpuTextureCount <= GPU_TEXTURE_LIMIT

\* number of loadChunk calls for key that are awaiting their fetch
Pending(key) == IF key \in DOMAIN inFlight THEN inFlight[key] ELSE 0

\* f with key mapped to val (Map.set)
MapSet(f, key, val) ==
    [ k \in DOMAIN f \cup {key} |-> IF k = key THEN val ELSE f[k] ]

\* f without key (Map.delete)
MapDelete(f, keys) == [ k \in DOMAIN f \ keys |-> f[k] ]

\* loadMissingChunks: the filter, and the same test at the head of loadChunk
NeedsLoad(key) == ~(key \in DOMAIN chunkCache) /\ ~(key \in loadingChunks)

\* A variant of MarkLoading that forgets to record the keys.
MarkLoadingForgotten(loading, keys) == loading

\* loadChunk: this.loadingChunks.add(key), for each chunk it starts
MarkLoading(loading, keys) == loading \cup keys

\* A variant of ClearLoading that leaves the key in the set.
ClearLoadingStuck(loading, key) == loading

\* loadChunk, finally: this.loadingChunks.delete(key)
ClearLoading(loading, key) == loading \ {key}

\* the caller changes its viewport (pan or zoom input)
SetViewport(vp) ==
    /\ vp # viewport
    /\ viewport' = vp
    /\ lastOp' = [op |-> "setViewport"]
    /\ UNCHANGED <<imageMetadata, chunkCache, loadingChunks, inFlight,
                   createdTextures, deletedTextures, frame, lastFailed>>
    /\ UNCHANGED managerVars
    /\ UNCHANGED cullVars
    /\ UNCHANGED procVars
    /\ UNCHANGED auxVars
    /\ UNCHANGED tierVars

\* A variant of AwaitedLoads in which render awaits the loads it started.
AwaitedLoadsAll(started) == started

\* render: the loads whose completion the frame waits for before it draws;
\* the promise of loadMissingChunks is dropped, so none.
AwaitedLoads(started) == {}

\* ImageRenderer.render(viewport): calculateLOD, getVisibleChunks,
\* loadMissingChunks up to each loadChunk's first await, and renderChunks.
RenderFrame ==
    LET targetLOD == calculateLOD(viewport.zoom, imageMetadata)
        visibleChunks == getVisibleChunks(viewport, targetLOD, imageMetadata)
        visibleKeys == { getChunkKey(c) : c \in visibleChunks }
        started == { k \in visibleKeys : NeedsLoad(k) }
        drawn == { k \in visibleKeys : k \in DOMAIN chunkCache }
    IN  /\ AwaitedLoads(started) = {}
        /\ loadingChunks' = MarkLoading(loadingChunks, started)
        /\ inFlight' = [ k \in DOMAIN inFlight \cup started |->
                            Pending(k) + (IF k \in started THEN 1 ELSE 0) ]
        /\ frame' = [visible |-> visibleChunks, drawn |-> drawn]
        /\ lastOp' = [ op |-> "render", started |-> started,
                       coalesced |-> visibleKeys \cap loadingChunks ]
        /\ startedFor' = [ k \in DOMAIN inFlight \cup started |->
                              IF k \in started THEN imageId ELSE startedFor[k] ]
        /\ UNCHANGED <<imageMetadata, viewport, chunkCache, createdTextures,
                       deletedTextures, lastFailed, imageId, fetchedFor>>
        /\ UNCHANGED managerVars
        /\ UNCHANGED cullVars
        /\ UNCHANGED procVars
        /\ UNCHANGED <<preloadVars, predictVars, sideVars>>
        /\ UNCHANGED tierVars

\* inFlight with one call for key fewer
OneFewer(key) ==
    IF inFlight[key] = 1 THEN MapDelete(inFlight, {key})
    ELSE [inFlight EXCEPT ![key] = @ - 1]

\* gl.createTexture(): a texture no earlier call returned
NewTexture(key) ==
    <<key, Cardinality({ t \in createdTextures : t[1] = key })>>

\* loadChunk after its awaits, all fulfilled: the texture is created and
\* cached, and the finally block clears the loading mark.
FetchSucceed(key) ==
    /\ key \in DOMAIN inFlight
    /\ inFlight' = OneFewer(key)
    /\ createdTextures' = createdTextures \cup {NewTexture(key)}
    /\ chunkCache' = MapSet(chunkCache, key, NewTexture(key))
    /\ loadingChunks' = ClearLoading(loadingChunks, key)
    /\ lastOp' = [op |-> "fetchSucceed", key |-> key]
    /\ fetchedFor' = MapSet(fetchedFor, NewTexture(key), startedFor[key])
    /\ startedFor' = [ k \in DOMAIN OneFewer(key) |-> startedFor[k] ]
    /\ UNCHANGED <<imageMetadata, viewport, deletedTextures, frame, lastFailed, imageId>>
    /\ UNCHANGED managerVars
    /\ UNCHANGED cullVars
    /\ UNCHANGED procVars
    /\ UNCHANGED <<preloadVars, predictVars, sideVars>>
    /\ UNCHANGED tierVars

\* the ways loadChunk's try block throws: fetch rejects, the response is
\* not ok, or blob() / createImageBitmap rejects
FailureKinds == {"network", "http", "decode"}

\* loadChunk after a rejected await or a response that is not ok: the catch
\* block logs, and the finally block clears the loading mark.
FetchFail(key, kind) ==
    /\ key \in DOMAIN inFlight
    /\ inFlight' = OneFewer(key)
    /\ loadingChunks' = ClearLoading(loadingChunks, key)
    /\ kind \in FailureKinds
    /\ lastOp' = [op |-> "fetchFail", key |-> key]
    /\ lastFailed' = key
    /\ startedFor' = [ k \in DOMAIN OneFewer(key) |-> startedFor[k] ]
    /\ UNCHANGED <<imageMetadata, viewport, chunkCache, createdTextures,
                   deletedTextures, frame, imageId, fetchedFor>>
    /\ UNCHANGED managerVars
    /\ UNCHANGED cullVars
    /\ UNCHANGED procVars
    /\ UNCHANGED <<preloadVars, predictVars, sideVars>>
    /\ UNCHANGED tierVars

\* ------------------------------------ MemoryManager (base document)

\* recalculateCacheSize: the bytes one cached chunk is counted as
ChunkBytes == 512 * 512 * 4

\* MemoryManager.maxCacheSize
MaxCacheSize == MaxCacheChunks * 1024 * 1024

\* the bytes the cache holds, as recalculateCacheSize counts them
CacheBytes(cache) == Cardinality(DOMAIN cache) * ChunkBytes

\* cleanupCache: the test of its early return
CleanupSkipped(size) == size < MaxCacheSize

\* sort((a, b) => a[1] - b[1]) is stable: entry i comes before entry j
ComesBefore(entries, i, j) ==
    \/ entries[i].time < entries[j].time
    \/ entries[i].time = entries[j].time /\ i < j

\* cleanupCache: the keys of sortedChunks, the first
\* Math.floor(chunkCache.size * 0.3) entries by access time
sortedChunks(entries, cache) ==
    LET count == (Cardinality(DOMAIN cache) * 3) \div 10
    IN  { entries[i].key : i \in
            { i \in 1..Len(entries) :
                Cardinality({ j \in 1..Len(entries) : ComesBefore(entries, j, i) }) < count } }

\* accessTimes.get(key), for a key the Map holds
TimeOf(entries, key) ==
    LET i == CHOOSE i \in 1..Len(entries) : entries[i].key = key
    IN  entries[i].time

\* MemoryManager.cleanupCache(chunkCache), on the renderer's cache
CleanupCache ==
    /\ IF CleanupSkipped(currentCacheSize)
       THEN /\ lastOp' = [ op |-> "cleanupCache", evicted |-> {},
                           bytesBefore |-> CacheBytes(chunkCache), timeOf |-> <<>> ]
            /\ UNCHANGED <<chunkCache, deletedTextures, accessTimes, currentCacheSize>>
       ELSE LET evicted == sortedChunks(accessTimes, chunkCache) \cap DOMAIN chunkCache
            IN  /\ deletedTextures' = deletedTextures \cup { chunkCache[k] : k \in evicted }
                /\ chunkCache' = MapDelete(chunkCache, evicted)
                /\ accessTimes' = SelectSeq(accessTimes, LAMBDA e : ~(e.key \in evicted))
                /\ currentCacheSize' = CacheBytes(chunkCache')
                /\ lastOp' = [ op |-> "cleanupCache", evicted |-> evicted,
                               bytesBefore |-> CacheBytes(chunkCache),
                               timeOf |-> [ k \in evicted |-> TimeOf(accessTimes, k) ] ]
    /\ UNCHANGED <<imageMetadata, viewport, loadingChunks, inFlight,
                   createdTextures, frame, lastFailed, now>>
    /\ UNCHANGED cullVars
    /\ UNCHANGED procVars
    /\ UNCHANGED auxVars
    /\ UNCHANGED tierVars

\* MemoryManager.recordAccess(chunkKey): Map.set keeps the place of a key
\* the Map holds and appends a new one
RecordAccess(key) ==
    /\ accessTimes' =
         IF \E i \in 1..Len(accessTimes) : accessTimes[i].key = key
         THEN [ i \in 1..Len(accessTimes) |->
                  IF accessTimes[i].key = key
                  THEN [key |-> key, time |-> now] ELSE accessTimes[i] ]
         ELSE Append(accessTimes, [key |-> key, time |-> now])
    /\ lastOp' = [op |-> "recordAccess", key |-> key]
    /\ UNCHANGED <<imageMetadata, currentCacheSize, now>>
    /\ UNCHANGED rendererVars
    /\ UNCHANGED cullVars
    /\ UNCHANGED procVars
    /\ UNCHANGED auxVars
    /\ UNCHANGED tierVars

\* a millisecond passes
Tick ==
    /\ now < MaxTime
    /\ now' = now + 1
    /\ lastOp' = [op |-> "tick"]
    /\ UNCHANGED <<imageMetadata, currentCacheSize, accessTimes>>
    /\ UNCHANGED rendererVars
    /\ UNCHANGED cullVars
    /\ UNCHANGED procVars
    /\ UNCHANGED auxVars
    /\ UNCHANGED tierVars

\* ------------------------------------------------ ProgressiveRenderer

\* ProgressiveRenderer.maxLODLevel: the coarsest level of the descriptor
maxLODLevel == Len(imageMetadata) - 1

\* ProgressiveRenderer.getLowerLODChunks
getLowerLODChunks(chunks) ==
    { [ level |-> Min(c.level + 1, maxLODLevel),
        x     |-> FloorDiv(c.x, 2),
        y     |-> FloorDiv(c.y, 2) ] : c \in chunks }

\* ProgressiveRenderer.isChunkLoaded
isChunkLoaded(chunk) == getChunkKey(chunk) \in DOMAIN chunkCache

\* ProgressiveRenderer.renderWithFallback(chunks, viewport) on the chunks
\* visible in the viewport: the loaded lower-level chunks are drawn first,
\* the loaded chunks of the list over them.
RenderWithFallback ==
    LET targetLOD == calculateLOD(viewport.zoom, imageMetadata)
        chunks == getVisibleChunks(viewport, targetLOD, imageMetadata)
        lowResChunks == getLowerLODChunks(chunks)
        drawn == { getChunkKey(c) : c \in { l \in lowResChunks : isChunkLoaded(l) } }
                 \cup { getChunkKey(c) : c \in { h \in chunks : isChunkLoaded(h) } }
    IN  /\ frame' = [visible |-> chunks, drawn |-> drawn]
        /\ lastOp' = [op |-> "renderWithFallback"]
        /\ UNCHANGED <<imageMetadata, viewport, chunkCache, loadingChunks, inFlight,
                       createdTextures, deletedTextures, lastFailed>>
        /\ UNCHANGED managerVars
        /\ UNCHANGED cullVars
        /\ UNCHANGED procVars
        /\ UNCHANGED auxVars
        /\ UNCHANGED tierVars

\* --------------------------------------- the renderer's specifications

\* every chunk key of a descriptor's levels
ChunkKeys(levels) ==
    UNION { { <<i - 1, x, y>> : x \in 0..(levels[i].chunks_x - 1),
                                y \in 0..(levels[i].chunks_y - 1) } :
            i \in DOMAIN levels }

RenderKeys == ChunkKeys(MetadataLevels(RenderImage[1], RenderImage[2]))

InitRender ==
    /\ IdleProcessor
    /\ IdleAux
    /\ InitTier
    /\ imageMetadata = MetadataLevels(RenderImage[1], RenderImage[2])
    /\ InitRenderer
    /\ IdleCull

\* The renderer as the document wires it: the caller's input, the frame
\* loop, the fetch completions, and a clean-up call between frames.
NextRender ==
    \/ \E vp \in RenderViewports \cup {CanvasViewport} : SetViewport(vp)
    \/ RenderFrame
    \/ \E key \in RenderKeys : FetchSucceed(key)
    \/ \E key \in RenderKeys, kind \in FailureKinds : FetchFail(key, kind)
    \/ CleanupCache

SpecRender == InitRender /\ [][NextRender]_vars

\* The image of the fair specification: one level of 2 x 1 chunks.
FairImage == <<1024, 512>>

FairKeys == ChunkKeys(MetadataLevels(FairImage[1], FairImage[2]))

\* the canvas over both chunks, over the right chunk, and off the image
FairViewports ==
    [ x : {-1000, 0, 600}, y : {0}, width : {400}, height : {400}, zoom : { <<1, 1>> } ]

InitRenderFair ==
    /\ IdleProcessor
    /\ IdleAux
    /\ InitTier
    /\ imageMetadata = MetadataLevels(FairImage[1], FairImage[2])
    /\ InitRenderer
    /\ IdleCull

NextRenderFair ==
    \/ \E vp \in FairViewports : SetViewport(vp)
    \/ RenderFrame
    \/ \E key \in FairKeys : FetchSucceed(key)
    \/ \E key \in FairKeys, kind \in FailureKinds : FetchFail(key, kind)
    \/ CleanupCache

\* The frame loop runs again and again (requestAnimationFrame), and a
\* chunk whose fetch is tried again and again is fetched in the end.
SpecRenderFair ==
    /\ InitRenderFair
    /\ [][NextRenderFair]_vars
    /\ WF_vars(RenderFrame)
    /\ \A key \in FairKeys : SF_vars(FetchSucceed(key))

\* the keys of the chunks the current viewport requires
RequiredKeys ==
    { getChunkKey(c) : c \in
        getVisibleChunks(viewport, calculateLOD(viewport.zoom, imageMetadata),
                         imageMetadata) }

\* C1: a chunk never has more than one fetch under way, whatever frames
\* and completions interleave; a key marked loading has exactly one.
C1_OneFetchPerChunk ==
    \A key \in loadingChunks \cup DOMAIN inFlight : Pending(key) = 1

\* C1 witness: a frame asked for chunks that were still loading and
\* started no second fetch for them.
C1_Witness ==
    /\ lastOp.op = "render"
    /\ lastOp.coalesced # {}
    /\ \A key \in lastOp.coalesced : Pending(key) = 1 /\ ~(key \in lastOp.started)

\* C2: after a failed fetch the chunk is neither marked loading nor
\* cached, so the next request for it starts a fetch; and no key is
\* marked loading without a fetch under way.
C2_FailureClearsLoading ==
    /\ lastOp.op = "fetchFail" =>
          /\ ~(lastOp.key \in loadingChunks)
          /\ ~(lastOp.key \in DOMAIN chunkCache)
          /\ NeedsLoad(lastOp.key)
    /\ loadingChunks \subseteq DOMAIN inFlight

\* C2 witness: a frame started a fetch for a chunk whose earlier fetch failed.
C2_Witness ==
    /\ lastOp.op = "render"
    /\ lastFailed \in lastOp.started

\* C3: a chunk that stays required is resident in the end: again and
\* again, each chunk is either not required or resident.
C3_EventuallyResident ==
    \A key \in FairKeys :
        []<>(~(key \in RequiredKeys) \/ key \in DOMAIN chunkCache)

\* C3 witness: a chunk whose fetch failed was requested again and is resident.
C3_Witness ==
    /\ lastOp.op = "fetchSucceed"
    /\ lastOp.key = lastFailed
    /\ lastOp.key \in DOMAIN chunkCache
    /\ lastOp.key \in RequiredKeys

\* The image of the clean-up specification: one level of 3 x 1 chunks.
EvictImage == <<1536, 512>>

EvictKeys == ChunkKeys(MetadataLevels(EvictImage[1], EvictImage[2]))

\* a viewport over the whole of the clean-up specification's image
EvictViewport == [x |-> 0, y |-> 0, width |-> 1536, height |-> 512, zoom |-> <<1, 1>>]

InitEvict ==
    /\ IdleProcessor
    /\ IdleAux
    /\ InitTier
    /\ imageMetadata = MetadataLevels(EvictImage[1], EvictImage[2])
    /\ InitRenderer
    /\ IdleCull

\* Chunks are requested by frames over the whole image, loaded, touched
\* once resident, and the cache is cleaned up at any moment.
NextEvict ==
    \/ SetViewport(EvictViewport)
    \/ RenderFrame
    \/ \E key \in EvictKeys : FetchSucceed(key)
    \/ \E key \in EvictKeys : key \in DOMAIN chunkCache /\ RecordAccess(key)
    \/ Tick
    \/ CleanupCache

SpecEvict == InitEvict /\ [][NextEvict]_vars

\* the keys accessTimes holds
TouchedKeys == { accessTimes[i].key : i \in 1..Len(accessTimes) }

\* C5: once more chunks were loaded and touched than the cache is sized
\* for (N > K), a clean-up leaves exactly the K most recently touched
\* chunks resident and N - K textures evicted.
C5_EvictsDownToCapacity ==
    ( /\ lastOp.op = "cleanupCache"
      /\ Cardinality(createdTextures) > MaxCacheChunks
      /\ { t[1] : t \in createdTextures } \subseteq TouchedKeys \cup { t[1] : t \in deletedTextures } )
    => /\ Cardinality(deletedTextures) = Cardinality(createdTextures) - MaxCacheChunks
       /\ Cardinality(DOMAIN chunkCache) = MaxCacheChunks
       /\ \A kept \in DOMAIN chunkCache, gone \in lastOp.evicted :
             TimeOf(accessTimes, kept) >= lastOp.timeOf[gone]

\* C6: a clean-up called with the cache at or above its ceiling leaves
\* the cache below the ceiling.
C6_CleanupFreesBelowCeiling ==
    ( /\ lastOp.op = "cleanupCache"
      /\ lastOp.bytesBefore >= MaxCacheSize )
    => CacheBytes(chunkCache) < MaxCacheSize

\* ------------------------------------------ culling, as render computes it

\* The images whose descriptors the culling specification draws from: the
\* 4096 x 4096 image of the worked example, an image whose sides are no
\* multiple of the chunk size, and an image too small to have a level.
CullImages == { <<4096, 4096>>, <<1536, 1100>>, <<200, 200>> }

CullZooms == { <<1, 1>>, <<1, 2>>, <<1, 4>>, <<1, 8>>, <<1, 16>>, <<3, 4>>, <<2, 1>> }

CullViewports ==
    [ x : {-700, 0, 300, 1024, 5000}, y : {-512, 0, 600},
      width : {0, 700, 1024}, height : {100, 1024}, zoom : CullZooms ]

NoResult == [level |-> -1, chunks |-> {}, done |-> FALSE]

InitCull ==
    /\ IdleProcessor
    /\ IdleAux
    /\ \E img \in CullImages : imageMetadata = MetadataLevels(img[1], img[2])
    /\ cullInput \in CullViewports
    /\ cullResult = NoResult
    /\ InitRenderer
    /\ InitTier

\* ImageRenderer.render, steps 1 and 2: the target level and the visible chunks
ComputeVisible ==
    /\ ~cullResult.done
    /\ LET targetLOD == calculateLOD(cullInput.zoom, imageMetadata)
       IN  cullResult' = [ level  |-> targetLOD,
                           chunks |-> getVisibleChunks(cullInput, targetLOD, imageMetadata),
                           done   |-> TRUE ]
    /\ UNCHANGED <<imageMetadata, cullInput, lastOp>>
    /\ UNCHANGED rendererVars
    /\ UNCHANGED managerVars
    /\ UNCHANGED tierVars
    /\ UNCHANGED procVars
    /\ UNCHANGED auxVars

NextCull == ComputeVisible

SpecCull == InitCull /\ [][NextCull]_vars

\* C9: every chunk getVisibleChunks returns lies inside the chunk grid of
\* the level it was computed for: the level is an index of levels, and
\* 0 <= x < chunks_x and 0 <= y < chunks_y of that level.
C9_VisibleInGrid ==
    \A c \in cullResult.chunks :
        /\ c.level + 1 \in DOMAIN imageMetadata
        /\ c.x >= 0 /\ c.x < imageMetadata[c.level + 1].chunks_x
        /\ c.y >= 0 /\ c.y < imageMetadata[c.level + 1].chunks_y

\* C9 witness: a viewport reaching past the right and bottom edges of the
\* image, and one with a negative origin, for which chunks were returned.
C9_Witness ==
    /\ cullResult.done
    /\ cullResult.chunks # {}
    /\ cullInput.x < 0
    /\ cullInput.y + cullInput.height > 1100
    /\ Len(imageMetadata) = 3

\* The chunks of a level whose square overlaps the viewport rectangle, by
\* testing every chunk of the grid (both rectangles in level-0 pixels).
OverlappingChunks(vp, level, levels) ==
    IF ~(level + 1 \in DOMAIN levels) THEN {}
    ELSE
      LET levelData == levels[level + 1]
          unit == levelData.chunk_size * levelData.scaleDen
      IN  { [level |-> level, x |-> x, y |-> y] :
              <<x, y>> \in
                { p \in (0..(levelData.chunks_x - 1)) \X (0..(levelData.chunks_y - 1)) :
                    /\ p[1] * unit < vp.x + vp.width
                    /\ vp.x < (p[1] + 1) * unit
                    /\ p[2] * unit < vp.y + vp.height
                    /\ vp.y < (p[2] + 1) * unit } }

\* C10: the chunks getVisibleChunks returns are exactly the chunks that
\* overlap the viewport rectangle, no extras and no gaps.
C10_ExactCover ==
    cullResult.done =>
        cullResult.chunks = OverlappingChunks(cullInput, cullResult.level, imageMetadata)

\* floor(-log2(zoom)) for zoom = num / den, found by search: the integer k
\* with 2^-(k+1) < zoom <= 2^-k.
FloorNegLog2(zoom) ==
    CHOOSE k \in -8..8 :
        /\ IF k >= 0 THEN zoom[1] * Pow2(k) <= zoom[2]
                     ELSE zoom[1] <= zoom[2] * Pow2(-k)
        /\ IF k + 1 >= 0 THEN zoom[1] * Pow2(k + 1) > zoom[2]
                         ELSE zoom[1] > zoom[2] * Pow2(-(k + 1))

\* C11: calculateLOD returns clamp(floor(-log2(zoom)), 0, levelCount - 1)
\* and the level it returns is an index of levels, never below 0 and never
\* above levelCount - 1.
C11_LevelIsClampedLog ==
    cullResult.done =>
        /\ cullResult.level = Min(Max(FloorNegLog2(cullInput.zoom), 0), Len(imageMetadata) - 1)
        /\ cullResult.level >= 0
        /\ cullResult.level <= Len(imageMetadata) - 1

\* ------------------------------------------------ ingestion runs

\* the seconds time.time() - self.start_time can come to
ElapsedTimes == 1..MaxTime

InitPyramid ==
    /\ IdleAux
    /\ imageMetadata = <<>>
    /\ InitRenderer
    /\ IdleCull
    /\ InitTier
    /\ source \in Sources
    /\ responses = <<>>
    /\ built = NothingBuilt
    /\ storage = {}

NextPyramid == \E elapsed \in ElapsedTimes : ProcessImage(elapsed)

SpecPyramid == InitPyramid /\ [][NextPyramid]_vars

\* the source is a 4096 x 4096 image and a run on it has answered
Ran4096 ==
    /\ source = [kind |-> "image", width |-> 4096, height |-> 4096]
    /\ Len(responses) >= 1

RanWithLevels ==
    /\ Len(responses) >= 1
    /\ responses[Len(responses)].status = "success"
    /\ Len(built.pyramid_levels) >= 1

\* C13: each level halves the one before, the smaller side of the last
\* level produced is still >= min_size, and one more halving of it would
\* fall under min_size.
C13_LastLevelAtMinimum ==
    RanWithLevels =>
        LET levels == built.pyramid_levels
            last == levels[Len(levels)]
        IN  /\ \A i \in 2..Len(levels) :
                   /\ levels[i].width = levels[i - 1].width \div 2
                   /\ levels[i].height = levels[i - 1].height \div 2
            /\ Min(last.width, last.height) >= MinSize
            /\ Min(last.width, last.height) \div 2 < MinSize

\* C14: every level of the descriptor has chunks_x = ceil(width /
\* chunk_size) and chunks_y = ceil(height / chunk_size) for the width and
\* height the descriptor reports, and the level values count up from 0.
C14_GridMatchesReportedSize ==
    \A n \in DOMAIN responses :
        responses[n].status = "success" =>
            \A i \in DOMAIN responses[n].levels :
                LET info == responses[n].levels[i]
                IN  /\ info.level = i - 1
                    /\ info.chunks_x * info.chunk_size >= info.width
                    /\ (info.chunks_x - 1) * info.chunk_size < info.width
                    /\ info.chunks_y * info.chunk_size >= info.height
                    /\ (info.chunks_y - 1) * info.chunk_size < info.height

RECURSIVE SumAreas(_)
SumAreas(chunk_list) ==
    IF chunk_list = <<>> THEN 0
    ELSE Head(chunk_list).width * Head(chunk_list).height + SumAreas(Tail(chunk_list))

\* two chunks share a pixel
Overlap(a, b) ==
    /\ a.actual_x < b.actual_x + b.width
    /\ b.actual_x < a.actual_x + a.width
    /\ a.actual_y < b.actual_y + b.height
    /\ b.actual_y < a.actual_y + a.height

\* C15: for every level chunk_count = chunks_x * chunks_y, every chunk
\* outside the last row and column is chunk_size x chunk_size, the chunks of
\* the last row and column are clipped to the pixels that remain, and the
\* chunks of a level cover each of its pixels once: they lie inside the
\* level's image, no two overlap, and their areas add up to its area.
C15_ChunksPartitionLevel ==
    RanWithLevels =>
        \A i \in DOMAIN built.pyramid_levels :
            LET image == built.pyramid_levels[i]
                info == responses[Len(responses)].levels[i]
                chunk_list == built.chunks_data[i]
            IN  /\ info.chunk_count = info.chunks_x * info.chunks_y
                /\ Len(chunk_list) = info.chunk_count
                /\ \A j \in DOMAIN chunk_list :
                       LET c == chunk_list[j]
                       IN  /\ c.width = IF c.x < info.chunks_x - 1 THEN ChunkSize
                                        ELSE image.width - c.x * ChunkSize
                           /\ c.height = IF c.y < info.chunks_y - 1 THEN ChunkSize
                                         ELSE image.height - c.y * ChunkSize
                           /\ c.width >= 1 /\ c.width <= ChunkSize
                           /\ c.height >= 1 /\ c.height <= ChunkSize
                           /\ c.actual_x >= 0 /\ c.actual_x + c.width <= image.width
                           /\ c.actual_y >= 0 /\ c.actual_y + c.height <= image.height
                /\ \A j, k \in DOMAIN chunk_list :
                       j # k => ~Overlap(chunk_list[j], chunk_list[k])
                /\ SumAreas(chunk_list) = image.width * image.height

\* C15 witness: a run on the 1536 x 1100 image, whose last row of chunks is
\* clipped to 76 pixels, has built its chunks.
C15_Witness ==
    /\ RanWithLevels
    /\ source.width = 1536 /\ source.height = 1100
    /\ \E j \in DOMAIN built.chunks_data[1] : built.chunks_data[1][j].height = 76

\* C16: two runs of process-image on the same source image answer with the
\* same descriptor, field for field.
C16_RunsAgree ==
    Len(responses) = 2 => responses[1] = responses[2]

\* the source cannot be decoded or has no area
InvalidImage ==
    \/ source.kind = "undecodable"
    \/ source.kind = "image" /\ source.width * source.height = 0

FallbackImage == <<1028, 1028>>

FallbackKeys == ChunkKeys(MetadataLevels(FallbackImage[1], FallbackImage[2]))

\* the canvas over the upper left corner of the image at zoom 1, 1/2, 1/4
FallbackViewports ==
    [ x : {0}, y : {0}, width : {100}, height : {100},
      zoom : { <<1, 1>>, <<1, 2>>, <<1, 4>> } ]

InitFallback ==
    /\ IdleProcessor
    /\ IdleAux
    /\ InitTier
    /\ imageMetadata = MetadataLevels(FallbackImage[1], FallbackImage[2])
    /\ InitRenderer
    /\ IdleCull

NextFallback ==
    \/ \E vp \in FallbackViewports : SetViewport(vp)
    \/ RenderFrame
    \/ RenderWithFallback
    \/ \E key \in FallbackKeys : FetchSucceed(key)

SpecFallback == InitFallback /\ [][NextFallback]_vars

\* the chunks of coarser levels that cover the region of a chunk
Ancestors(c) ==
    { <<c.level + k, c.x \div Pow2(k), c.y \div Pow2(k)>> :
        k \in 1..(Len(imageMetadata) - 1 - c.level) }

\* a frame has just been drawn
FrameDrawn == lastOp.op \in {"render", "renderWithFallback"}

\* C18: in every frame, a required chunk that is not resident while one of
\* its ancestors is resident has its region drawn from a resident ancestor,
\* and a resident required chunk is drawn itself.
C18_FallbackToAncestor ==
    FrameDrawn =>
        \A c \in frame.visible :
            IF getChunkKey(c) \in DOMAIN chunkCache
            THEN getChunkKey(c) \in frame.drawn
            ELSE (Ancestors(c) \cap DOMAIN chunkCache # {}) =>
                     (Ancestors(c) \cap DOMAIN chunkCache \cap frame.drawn # {})

C20_DrawnChunksTouched ==
    lastOp.op = "render" =>
        \A key \in frame.drawn :
            \E i \in DOMAIN accessTimes :
                accessTimes[i].key = key /\ accessTimes[i].time = now

\* ------------------------------------------------ PreloadManager

\* PreloadManager.maxConcurrentLoads
maxConcurrentLoads == 4

\* the chunk lists handed to schedulePreload
PreloadBatches == { <<>>, <<1>>, <<2, 1>> }

\* A variant of CanStartLoad that does not look at currentLoads.
CanStartLoadUncapped(queue, loads) == Len(queue) > 0

\* A variant of CanStartLoad with which no loop takes a chunk.
CanStartLoadNever(queue, loads) == FALSE

\* processPreloadQueue: the loop test
CanStartLoad(queue, loads) == Len(queue) > 0 /\ loads < maxConcurrentLoads

\* schedulePreload(chunks): the chunks are queued and processPreloadQueue
\* runs up to its first await, if its loop is entered at all
SchedulePreload(chunks) ==
    /\ Len(preloadQueue) + Len(chunks) <= MaxQueueLen
    /\ LET queue == preloadQueue \o chunks
       IN  IF CanStartLoad(queue, currentLoads)
           THEN /\ preloadQueue' = Tail(queue)
                /\ currentLoads' = currentLoads + 1
                /\ preloading' = Append(preloading, Head(queue))
           ELSE /\ preloadQueue' = queue
                /\ UNCHANGED <<currentLoads, preloading>>
    /\ UNCHANGED coreVars
    /\ UNCHANGED predictVars
    /\ UNCHANGED identityVars
    /\ UNCHANGED sideVars

\* processPreloadQueue after `await this.loadChunk(chunk)`, fulfilled or
\* rejected: the finally block, and the loop up to its next await or its end
PreloadSettled(i) ==
    /\ i \in DOMAIN preloading
    /\ IF CanStartLoad(preloadQueue, currentLoads - 1)
       THEN /\ preloadQueue' = Tail(preloadQueue)
            /\ currentLoads' = (currentLoads - 1) + 1
            /\ preloading' = [preloading EXCEPT ![i] = Head(preloadQueue)]
       ELSE /\ currentLoads' = currentLoads - 1
            /\ preloading' = [ j \in 1..(Len(preloading) - 1) |->
                                 IF j < i THEN preloading[j] ELSE preloading[j + 1] ]
            /\ UNCHANGED preloadQueue
    /\ UNCHANGED coreVars
    /\ UNCHANGED predictVars
    /\ UNCHANGED identityVars
    /\ UNCHANGED sideVars

InitPreload ==
    /\ imageMetadata = <<>>
    /\ InitRenderer
    /\ IdleCull
    /\ InitTier
    /\ IdleProcessor
    /\ IdleAux

NextPreload ==
    \/ \E chunks \in PreloadBatches : SchedulePreload(chunks)
    \/ \E i \in 1..maxConcurrentLoads : PreloadSettled(i)

SpecPreload == InitPreload /\ [][NextPreload]_vars

\* C21: in every reachable state 0 <= currentLoads <= maxConcurrentLoads.
C21_LoadsWithinLimit ==
    /\ currentLoads >= 0
    /\ currentLoads <= maxConcurrentLoads

\* C21 witness: the limit is reached while chunks wait in the queue.
C21_Witness ==
    /\ currentLoads = maxConcurrentLoads
    /\ Len(preloadQueue) > 0

\* every load the preload loops await is eventually fulfilled or rejected
SpecPreloadFair ==
    /\ InitPreload
    /\ [][NextPreload]_vars
    /\ WF_vars(\E i \in 1..maxConcurrentLoads : PreloadSettled(i))

\* C31: every chunk handed to schedulePreload is eventually issued: once
\* the schedulePreload calls have stopped, the preload queue becomes empty
\* and currentLoads returns to 0, and they stay so.
C31_QueueDrains ==
    \/ []<><<\E chunks \in PreloadBatches : SchedulePreload(chunks)>>_vars
    \/ <>[](preloadQueue = <<>> /\ currentLoads = 0)

\* C31 witness: two chunks wait in the queue because the limit of loads in
\* flight was reached when they were scheduled.
C31_Witness ==
    /\ Len(preloading) = maxConcurrentLoads
    /\ Len(preloadQueue) = 2

\* ------------------------------------------------ ChunkPredictor

\* the positions the viewport controller reports to recordMovement
MovePoints ==
    { [x |-> 0, y |-> 0, zoom |-> <<1, 1>>],
      [x |-> 1500, y |-> 700, zoom |-> <<1, 2>>] }

\* A variant of TrimHistory that never drops a sample.
TrimHistoryNever(history) == history

\* recordMovement: the oldest sample is shifted out past historyLimit
TrimHistory(history) ==
    IF Len(history) > HistoryLimit THEN Tail(history) ELSE history

\* ChunkPredictor.recordMovement(x, y, zoom)
RecordMovement(p) ==
    /\ Len(arrivals) < MaxMoves
    /\ LET sample == [x |-> p.x, y |-> p.y, zoom |-> p.zoom, timestamp |-> now]
       IN  /\ movementHistory' = TrimHistory(Append(movementHistory, sample))
           /\ arrivals' = Append(arrivals, sample)
    /\ UNCHANGED predicted
    /\ UNCHANGED coreVars
    /\ UNCHANGED preloadVars
    /\ UNCHANGED identityVars
    /\ UNCHANGED sideVars

\* Math.floor(Math.sqrt(n)), by bisection between lo and hi
RECURSIVE SqrtBetween(_, _, _)
SqrtBetween(n, lo, hi) ==
    IF lo >= hi THEN lo
    ELSE LET mid == (lo + hi + 1) \div 2
         IN  IF mid * mid <= n THEN SqrtBetween(n, mid, hi)
                               ELSE SqrtBetween(n, lo, mid - 1)

\* getChunksForPosition: Math.max(0, 1 - distance / radius) for radius 2, in
\* thousandths, with distance = Math.sqrt(dx * dx + dy * dy)
priorityOf(dx, dy) ==
    LET distance == SqrtBetween((dx * dx + dy * dy) * 1000000, 0, 4000)
    IN  Max(0, 1000 - distance \div 2)

\* A variant of SortsBefore that sorts by ascending priority.
SortsBeforeAscending(a, b) == a.priority < b.priority

\* getChunksForPosition: the comparator (a, b) => b.priority - a.priority
\* puts a before b
SortsBefore(a, b) == a.priority > b.priority

\* Array.prototype.sort, which is stable, with the comparator SortsBefore:
\* an element goes in front of the first element it sorts before
InsertSorted(sorted, e) ==
    LET after == { i \in 1..Len(sorted) : SortsBefore(e, sorted[i]) }
    IN  IF after = {} THEN Append(sorted, e)
        ELSE LET k == CHOOSE i \in after : \A j \in after : i <= j
             IN  SubSeq(sorted, 1, k - 1) \o <<e>> \o SubSeq(sorted, k, Len(sorted))

RECURSIVE sortByPriority(_, _)
sortByPriority(chunks, n) ==
    IF n = 0 THEN <<>> ELSE InsertSorted(sortByPriority(chunks, n - 1), chunks[n])

\* ChunkPredictor.getChunksForPosition
getChunksForPosition(position) ==
    LET level == Max(0, CoarserSteps(position.zoom[1], position.zoom[2]))
        \* chunkSize = 512 * 2^-level, so x / chunkSize = x * 2^level / 512
        centerX == FloorDiv(position.x * Pow2(level), 512)
        centerY == FloorDiv(position.y * Pow2(level), 512)
        chunks == [ i \in 1..25 |->
                      LET dx == ((i - 1) % 5) - 2
                          dy == ((i - 1) \div 5) - 2
                      IN  [ level    |-> level,
                            x        |-> centerX + dx,
                            y        |-> centerY + dy,
                            priority |-> priorityOf(dx, dy) ] ]
    IN  sortByPriority(chunks, 25)

\* predictPosition(latest, velocity, acceleration): the latest position
\* moved on by the step from the sample before it, at the latest zoom
predictPosition(latest, previous) ==
    [ x    |-> latest.x + (latest.x - previous.x),
      y    |-> latest.y + (latest.y - previous.y),
      zoom |-> latest.zoom ]

\* ChunkPredictor.predictNextChunks()
PredictNextChunks ==
    /\ predicted' =
          [ by     |-> "ChunkPredictor",
            chunks |-> IF Len(movementHistory) < 2 THEN <<>>
                       ELSE getChunksForPosition(
                              predictPosition(movementHistory[Len(movementHistory)],
                                              movementHistory[Len(movementHistory) - 1])) ]
    /\ UNCHANGED <<movementHistory, arrivals>>
    /\ UNCHANGED coreVars
    /\ UNCHANGED preloadVars
    /\ UNCHANGED identityVars
    /\ UNCHANGED sideVars

\* PreloadManager.isValidChunk: the chunk is in the grid of its level
isValidChunk(chunk) ==
    /\ chunk.level + 1 \in DOMAIN imageMetadata
    /\ chunk.x >= 0 /\ chunk.x < imageMetadata[chunk.level + 1].chunks_x
    /\ chunk.y >= 0 /\ chunk.y < imageMetadata[chunk.level + 1].chunks_y

\* PreloadManager.getCurrentVisibleChunks: the chunks render would show
getCurrentVisibleChunks(vp) ==
    getVisibleChunks(vp, calculateLOD(vp.zoom, imageMetadata), imageMetadata)

\* the elements of a finite set as a sequence
RECURSIVE SeqOf(_)
SeqOf(S) ==
    IF S = {} THEN <<>>
    ELSE LET e == CHOOSE e \in S : TRUE IN <<e>> \o SeqOf(S \ {e})

\* the movement directions handed to PreloadManager.predictNextChunks
Directions == { <<1, 0>>, <<-1, 0>>, <<0, 1>>, <<0, -1>>, <<1, -1>> }

\* PreloadManager.predictNextChunks(viewport, direction)
PredictPreload(direction) ==
    /\ LET extraChunks == 2
           currentChunks == getCurrentVisibleChunks(viewport)
           predictions ==
               (IF direction[1] > 0
                THEN { [c EXCEPT !.x = c.x + extraChunks] : c \in currentChunks } ELSE {})
               \cup (IF direction[1] < 0
                THEN { [c EXCEPT !.x = c.x - extraChunks] : c \in currentChunks } ELSE {})
               \cup (IF direction[2] > 0
                THEN { [c EXCEPT !.y = c.y + extraChunks] : c \in currentChunks } ELSE {})
               \cup (IF direction[2] < 0
                THEN { [c EXCEPT !.y = c.y - extraChunks] : c \in currentChunks } ELSE {})
       IN  predicted' = [ by     |-> "PreloadManager",
                          chunks |-> SeqOf({ c \in predictions : isValidChunk(c) }) ]
    /\ UNCHANGED <<movementHistory, arrivals>>
    /\ UNCHANGED coreVars
    /\ UNCHANGED preloadVars
    /\ UNCHANGED identityVars
    /\ UNCHANGED sideVars

\* the image shown while the predictor runs: four levels, 8 x 8 chunks at
\* level 0
PredictImage == <<4096, 4096>>

InitPredict ==
    /\ imageMetadata = MetadataLevels(PredictImage[1], PredictImage[2])
    /\ InitRenderer
    /\ IdleCull
    /\ InitTier
    /\ IdleProcessor
    /\ IdleAux

NextPredict ==
    \/ \E p \in MovePoints : RecordMovement(p)
    \/ PredictNextChunks
    \/ \E direction \in Directions : PredictPreload(direction)
    \/ Tick

SpecPredict == InitPredict /\ [][NextPredict]_vars

\* C24: the motion history holds at most historyLimit samples, and they
\* are the most recent samples recorded, in the order they arrived.
C24_HistoryIsMostRecent ==
    /\ Len(movementHistory) <= HistoryLimit
    /\ LET kept == Min(Len(arrivals), HistoryLimit)
       IN  movementHistory = SubSeq(arrivals, Len(arrivals) - kept + 1, Len(arrivals))

\* C24 witness: two more samples than the history holds were recorded, at
\* different times.
C24_Witness ==
    /\ Len(arrivals) >= HistoryLimit + 2
    /\ arrivals[1].timestamp < arrivals[Len(arrivals)].timestamp
    /\ arrivals[1] # arrivals[Len(arrivals) - HistoryLimit + 1]

\* the smallest and the largest of a non-empty set of integers, halved:
\* the middle of a block of chunk coordinates
Middle(S) == ((CHOOSE m \in S : \A n \in S : m <= n) + MaxOf(S)) \div 2

\* C22: ChunkPredictor returns its chunks in descending order of priority,
\* a nearer chunk never has a lower priority than a farther one, the centre
\* chunk comes first, and no chunk comes after a farther chunk of lower
\* priority.
C22_OrderedByPriority ==
    (predicted.by = "ChunkPredictor" /\ predicted.chunks # <<>>) =>
        LET chunks == predicted.chunks
            cx == Middle({ chunks[i].x : i \in DOMAIN chunks })
            cy == Middle({ chunks[i].y : i \in DOMAIN chunks })
            far(c) == (c.x - cx) * (c.x - cx) + (c.y - cy) * (c.y - cy)
        IN  /\ \A i \in 1..(Len(chunks) - 1) :
                   chunks[i].priority >= chunks[i + 1].priority
            /\ chunks[1].x = cx /\ chunks[1].y = cy
            /\ \A i, j \in DOMAIN chunks :
                   far(chunks[i]) < far(chunks[j]) =>
                       chunks[i].priority >= chunks[j].priority
            /\ \A i, j \in DOMAIN chunks :
                   (i < j /\ far(chunks[j]) < far(chunks[i])) =>
                       ~(chunks[i].priority < chunks[j].priority)

\* C22 witness: a prediction at level 1 returned its 25 chunks, of more
\* than two different priorities.
C22_Witness ==
    /\ predicted.by = "ChunkPredictor"
    /\ Len(predicted.chunks) = 25
    /\ predicted.chunks[1].level = 1
    /\ Cardinality({ predicted.chunks[i].priority : i \in DOMAIN predicted.chunks }) > 2

\* C23: every chunk a predictor emits is a chunk of the image: its level
\* is a level of the descriptor and its x and y are in that level's grid.
C23_PredictedChunksValid ==
    \A i \in DOMAIN predicted.chunks :
        LET c == predicted.chunks[i]
        IN  /\ c.level >= 0 /\ c.level < Len(imageMetadata)
            /\ c.x >= 0 /\ c.x < imageMetadata[c.level + 1].chunks_x
            /\ c.y >= 0 /\ c.y < imageMetadata[c.level + 1].chunks_y

\* C25: a GPU texture is created for a chunk only while the chunk is in
\* the draw set of the current frame.
C25_TextureOnlyForDrawSet ==
    lastOp.op = "fetchSucceed" =>
        lastOp.key \in { getChunkKey(c) : c \in frame.visible }

\* ------------------------------------------------ one renderer, two images

\* the images handed to initialize: their image_id and their size
Images ==
    { [image_id |-> "image-id", size |-> <<1024, 512>>],
      [image_id |-> "image-2", size |-> <<1024, 1024>>] }

\* ImageRenderer.initialize(canvas, metadata): the metadata is replaced;
\* chunkCache and loadingChunks are left as they are
Initialize(image) ==
    /\ image.image_id # imageId
    /\ imageMetadata' = MetadataLevels(image.size[1], image.size[2])
    /\ imageId' = image.image_id
    /\ lastOp' = [op |-> "initialize"]
    /\ UNCHANGED <<startedFor, fetchedFor>>
    /\ UNCHANGED rendererVars
    /\ UNCHANGED managerVars
    /\ UNCHANGED cullVars
    /\ UNCHANGED procVars
    /\ UNCHANGED tierVars
    /\ UNCHANGED <<preloadVars, predictVars, sideVars>>

TwoImageKeys ==
    UNION { ChunkKeys(MetadataLevels(image.size[1], image.size[2])) : image \in Images }

InitTwoImages ==
    /\ IdleProcessor
    /\ IdleAux
    /\ InitTier
    /\ imageMetadata = MetadataLevels(1024, 512)
    /\ InitRenderer
    /\ IdleCull

NextTwoImages ==
    \/ \E image \in Images : Initialize(image)
    \/ RenderFrame
    \/ \E key \in TwoImageKeys : FetchSucceed(key)

SpecTwoImages == InitTwoImages /\ [][NextTwoImages]_vars

\* C26: a draw never uses a texture fetched for another TileId: every
\* chunk drawn in a frame is drawn with a texture whose pixels were fetched
\* for the image the renderer shows.
C26_DrawnTextureOfThisImage ==
    lastOp.op = "render" =>
        \A key \in frame.drawn : fetchedFor[chunkCache[key]] = imageId

\* ------------------------------------------------ scripts/dev.sh

\* The readiness probes one run of the script may fail.
MaxProbes == 3

\* what may hold a port when the script starts
StalePortHolders == {"free", "python", "other"}

Event(ev, by) == [ev |-> ev, by |-> by]

FailedProbes == { i \in DOMAIN devLog : devLog[i] = Event("probe", "free") }

\* check_and_clean_port: a python or robyn process on the port is killed;
\* any other process on it makes the script exit with status 1
PortIsForeign(holder) == holder \notin {"free", "python"}

curlAlwaysSucceeds(holder) == TRUE

\* curl -s http://localhost:5173: succeeds when something answers on the port
curlSucceeds(holder) == holder # "free"

\* cleanup_ports: port 8080, then port 5173
CleanupPorts ==
    /\ devPc = "cleanupPorts"
    /\ IF PortIsForeign(port8080)
       THEN /\ devPc' = "exited"
            /\ UNCHANGED <<port8080, port5173>>
       ELSE /\ port8080' = "free"
            /\ IF PortIsForeign(port5173)
               THEN /\ devPc' = "exited"
                    /\ UNCHANGED port5173
               ELSE /\ port5173' = "free"
                    /\ devPc' = "startFrontend"
    /\ devLog' = Append(devLog, Event("cleanupPorts", ""))
    /\ UNCHANGED <<frontendJob, backendJob, desktopApp>>
    /\ UNCHANGED coreVars
    /\ UNCHANGED <<preloadVars, predictVars, identityVars, frustumVars, lodVars,
                   shellVars>>

\* frontend/scripts/dev.sh &
StartFrontend ==
    /\ devPc = "startFrontend"
    /\ frontendJob' = "starting"
    /\ devLog' = Append(devLog, Event("frontend", ""))
    /\ devPc' = "startBackend"
    /\ UNCHANGED <<port5173, port8080, backendJob, desktopApp>>
    /\ UNCHANGED coreVars
    /\ UNCHANGED <<preloadVars, predictVars, identityVars, frustumVars, lodVars,
                   shellVars>>

\* backend/dev.sh &
StartBackend ==
    /\ devPc = "startBackend"
    /\ backendJob' = "starting"
    /\ devLog' = Append(devLog, Event("backend", ""))
    /\ devPc' = "probe"
    /\ UNCHANGED <<port5173, port8080, frontendJob, desktopApp>>
    /\ UNCHANGED coreVars
    /\ UNCHANGED <<preloadVars, predictVars, identityVars, frustumVars, lodVars,
                   shellVars>>

\* one turn of `while ! curl -s http://localhost:5173; do sleep 1; done`
Probe ==
    /\ devPc = "probe"
    /\ IF curlSucceeds(port5173)
       THEN devPc' = "desktop"
       ELSE /\ Cardinality(FailedProbes) < MaxProbes
            /\ devPc' = "probe"
    /\ devLog' = Append(devLog, Event("probe", port5173))
    /\ UNCHANGED <<port5173, port8080, frontendJob, backendJob, desktopApp>>
    /\ UNCHANGED coreVars
    /\ UNCHANGED <<preloadVars, predictVars, identityVars, frustumVars, lodVars,
                   shellVars>>

\* "$(dirname "$0")/desktop.sh", in the foreground
LaunchDesktop ==
    /\ devPc = "desktop"
    /\ desktopApp' = "running"
    /\ devLog' = Append(devLog, Event("desktop", ""))
    /\ devPc' = "desktopRunning"
    /\ UNCHANGED <<port5173, port8080, frontendJob, backendJob>>
    /\ UNCHANGED coreVars
    /\ UNCHANGED <<preloadVars, predictVars, identityVars, frustumVars, lodVars,
                   shellVars>>

\* desktop.sh returns
DesktopExits ==
    /\ devPc = "desktopRunning"
    /\ desktopApp' = "exited"
    /\ devPc' = "wait"
    /\ UNCHANGED <<port5173, port8080, frontendJob, backendJob, devLog>>
    /\ UNCHANGED coreVars
    /\ UNCHANGED <<preloadVars, predictVars, identityVars, frustumVars, lodVars,
                   shellVars>>

\* wait: returns when the background jobs have ended
Wait ==
    /\ devPc = "wait"
    /\ frontendJob = "exited"
    /\ backendJob = "exited"
    /\ devPc' = "done"
    /\ UNCHANGED <<port5173, port8080, frontendJob, backendJob, desktopApp, devLog>>
    /\ UNCHANGED coreVars
    /\ UNCHANGED <<preloadVars, predictVars, identityVars, frustumVars, lodVars,
                   shellVars>>

\* the frontend development server starts listening on port 5173
FrontendListens ==
    /\ frontendJob = "starting"
    /\ port5173 = "free"
    /\ frontendJob' = "serving"
    /\ port5173' = "frontend"
    /\ UNCHANGED <<devPc, port8080, backendJob, desktopApp, devLog>>
    /\ UNCHANGED coreVars
    /\ UNCHANGED <<preloadVars, predictVars, identityVars, frustumVars, lodVars,
                   shellVars>>

\* the backend server starts listening on port 8080
BackendListens ==
    /\ backendJob = "starting"
    /\ port8080 = "free"
    /\ backendJob' = "serving"
    /\ port8080' = "backend"
    /\ UNCHANGED <<devPc, port5173, frontendJob, desktopApp, devLog>>
    /\ UNCHANGED coreVars
    /\ UNCHANGED <<preloadVars, predictVars, identityVars, frustumVars, lodVars,
                   shellVars>>

Ended(job) == IF job = "none" THEN "none" ELSE "exited"

Released(holder, job) == IF holder = job THEN "free" ELSE holder

\* the frontend job ends by itself
FrontendExits ==
    /\ frontendJob \in {"starting", "serving"}
    /\ frontendJob' = "exited"
    /\ port5173' = Released(port5173, "frontend")
    /\ UNCHANGED <<devPc, port8080, backendJob, desktopApp, devLog>>
    /\ UNCHANGED coreVars
    /\ UNCHANGED <<preloadVars, predictVars, identityVars, frustumVars, lodVars,
                   shellVars>>

\* the backend job ends by itself
BackendExits ==
    /\ backendJob \in {"starting", "serving"}
    /\ backendJob' = "exited"
    /\ port8080' = Released(port8080, "backend")
    /\ UNCHANGED <<devPc, port5173, frontendJob, desktopApp, devLog>>
    /\ UNCHANGED coreVars
    /\ UNCHANGED <<preloadVars, predictVars, identityVars, frustumVars, lodVars,
                   shellVars>>

\* SIGINT or SIGTERM: cleanup kills the jobs and the script exits
Interrupt ==
    /\ devPc \notin {"notRun", "exited", "done"}
    /\ frontendJob' = Ended(frontendJob)
    /\ backendJob' = Ended(backendJob)
    /\ desktopApp' = Ended(desktopApp)
    /\ port5173' = Released(port5173, "frontend")
    /\ port8080' = Released(port8080, "backend")
    /\ devPc' = "exited"
    /\ UNCHANGED devLog
    /\ UNCHANGED coreVars
    /\ UNCHANGED <<preloadVars, predictVars, identityVars, frustumVars, lodVars,
                   shellVars>>

InitDev ==
    /\ IdleProcessor
    /\ IdlePreload
    /\ IdlePredict
    /\ IdleIdentity
    /\ IdleFrustum
    /\ IdleLod
    /\ IdleShell
    /\ InitTier
    /\ imageMetadata = MetadataLevels(1024, 512)
    /\ InitRenderer
    /\ IdleCull
    /\ devPc = "cleanupPorts"
    /\ port5173 \in StalePortHolders
    /\ port8080 \in StalePortHolders
    /\ frontendJob = "none"
    /\ backendJob = "none"
    /\ desktopApp = "none"
    /\ devLog = <<>>

NextDev ==
    \/ CleanupPorts
    \/ StartFrontend
    \/ StartBackend
    \/ Probe
    \/ LaunchDesktop
    \/ DesktopExits
    \/ Wait
    \/ FrontendListens
    \/ BackendListens
    \/ FrontendExits
    \/ BackendExits
    \/ Interrupt

SpecDev == InitDev /\ [][NextDev]_vars

StartedBefore(ev, i) == \E j \in 1..(i - 1) : devLog[j].ev = ev

\* C27: the frontend and the backend are started before any readiness
\* probe, and the desktop application is launched only after a probe that
\* the frontend answered on localhost:5173.
C27_DesktopAfterReadiness ==
    \A i \in DOMAIN devLog :
        /\ devLog[i].ev = "probe" =>
               StartedBefore("frontend", i) /\ StartedBefore("backend", i)
        /\ devLog[i].ev = "desktop" =>
               \E j \in 1..(i - 1) : devLog[j] = Event("probe", "frontend")

\* the desktop application runs after the script waited for the frontend
C27_Witness ==
    /\ desktopApp = "running"
    /\ FailedProbes # {}

\* ------------------------------------------------ FrustumCuller

\* the image whose chunks are tested against the frustum
FrustumImage == <<2048, 2048>>

FrustumLevels == MetadataLevels(FrustumImage[1], FrustumImage[2])

\* the visible regions, in the coordinates of the level-0 image
VisibleRegions ==
    { r \in [ minX : {0, 300, 1100, 1600}, maxX : {300, 1100, 1600, 2048},
              minY : {0, 600, 1100}, maxY : {600, 1100, 2048} ] :
        r.minX < r.maxX /\ r.minY < r.maxY }

\* extractFrustumPlanes: the six planes <<a, b, c, d>> of an orthographic
\* view of the region, normals pointing inwards: left, right, bottom, top,
\* near, far
extractFrustumPlanes(region) ==
    << <<1, 0, 0, -region.minX>>, <<-1, 0, 0, region.maxX>>,
       <<0, 1, 0, -region.minY>>, <<0, -1, 0, region.maxY>>,
       <<0, 0, 1, 1>>, <<0, 0, -1, 1>> >>

\* FrustumCuller.intersectsFrustum; the box coordinates are handed over as
\* numerators over den (the scale of a level is 1 / den), and each plane
\* test px * plane[0] + py * plane[1] + plane[3] < 0 is multiplied by den
intersectsFrustum(minX, minY, maxX, maxY, den) ==
    \A i \in 1..6 :
        LET plane == frustumPlanes[i]
            px == IF plane[1] > 0 THEN maxX ELSE minX
            py == IF plane[2] > 0 THEN maxY ELSE minY
        IN  ~(px * plane[1] + py * plane[2] + plane[4] * den < 0)

\* FrustumCuller.isChunkVisible(chunk, levelData)
isChunkVisible(chunk, levelData) ==
    LET den == levelData.scaleDen
        chunkSize == levelData.chunk_size
        minX == chunk.x * chunkSize
        minY == chunk.y * chunkSize
        maxX == minX + chunkSize
        maxY == minY + chunkSize
    IN  intersectsFrustum(minX, minY, maxX, maxY, den)

\* FrustumCuller.updateFrustum
UpdateFrustum(region) ==
    /\ frustumPlanes' = extractFrustumPlanes(region)
    /\ visibleRegion' = region
    /\ visibility' = [chunk |-> <<>>, visible |-> FALSE]
    /\ UNCHANGED coreVars
    /\ UNCHANGED <<preloadVars, predictVars, identityVars, devVars, lodVars,
                   shellVars>>

\* a call of isChunkVisible on a chunk of the image
IsChunkVisible(key) ==
    /\ frustumPlanes # <<>>
    /\ visibility' =
         [ chunk   |-> key,
           visible |-> isChunkVisible([level |-> key[1], x |-> key[2], y |-> key[3]],
                                      imageMetadata[key[1] + 1]) ]
    /\ UNCHANGED <<frustumPlanes, visibleRegion>>
    /\ UNCHANGED coreVars
    /\ UNCHANGED <<preloadVars, predictVars, identityVars, devVars, lodVars,
                   shellVars>>

InitFrustum ==
    /\ IdleProcessor
    /\ IdleAux
    /\ InitTier
    /\ imageMetadata = FrustumLevels
    /\ InitRenderer
    /\ IdleCull

NextFrustum ==
    \/ \E region \in VisibleRegions : UpdateFrustum(region)
    \/ \E key \in ChunkKeys(FrustumLevels) : IsChunkVisible(key)

SpecFrustum == InitFrustum /\ [][NextFrustum]_vars

\* the part of the level-0 image a chunk holds
Level0Region(key) ==
    LET side == ChunkSize * Pow2(key[1])
    IN  [ minX |-> key[2] * side, maxX |-> Min((key[2] + 1) * side, FrustumImage[1]),
          minY |-> key[3] * side, maxY |-> Min((key[3] + 1) * side, FrustumImage[2]) ]

RegionsOverlap(a, b) ==
    /\ a.minX < b.maxX /\ b.minX < a.maxX
    /\ a.minY < b.maxY /\ b.minY < a.maxY

\* C29: the frustum test never culls a visible chunk: isChunkVisible is
\* true for every chunk, at every level, whose level-0 region overlaps the
\* visible region.
C29_VisibleChunkNotCulled ==
    ( /\ visibility.chunk # <<>>
      /\ RegionsOverlap(Level0Region(visibility.chunk), visibleRegion) )
        => visibility.visible

\* the same, for the chunks of level 0 alone
C29_Level0ChunkNotCulled ==
    ( /\ visibility.chunk # <<>>
      /\ visibility.chunk[1] = 0
      /\ RegionsOverlap(Level0Region(visibility.chunk), visibleRegion) )
        => visibility.visible

\* ------------------------------------------------ LODManager

\* LODManager.targetFPS
targetFPS == 60

\* LODManager.maxHistoryLength (10 in the source)
maxHistoryLength == 3

\* The latest value of performance.now() a run reaches, in milliseconds.
MaxPerfTime == 120

\* the milliseconds between two updateLOD calls: 100, 50, 40 and 25 frames
\* a second
FrameDeltas == {10, 20, 25, 40}

LodZooms == { <<1, 1>>, <<1, 2>>, <<1, 16>>, <<2, 1>> }

RECURSIVE SumSeq(_)
SumSeq(q) == IF q = <<>> THEN 0 ELSE Head(q) + SumSeq(Tail(q))

\* updateLOD: the frame history after the push and the shift
pushFrame(history, deltaTime) ==
    LET currentFPS == 1000 \div deltaTime
        pushed == Append(history, currentFPS)
    IN  IF Len(pushed) > maxHistoryLength THEN Tail(pushed) ELSE pushed

\* avgFPS < targetFPS * fraction, with fraction = tenths / 10 and avgFPS
\* the mean of the history, or targetFPS while the history is empty
AvgBelow(history, tenths) ==
    IF Len(history) > 0
    THEN SumSeq(history) * 10 < targetFPS * tenths * Len(history)
    ELSE targetFPS * 10 < targetFPS * tenths

\* updateLOD: `if (avgFPS < 0.8 * target) 1 else if (avgFPS < 0.6 * target) 2`
lodBias(history) ==
    IF AvgBelow(history, 8) THEN 1
    ELSE IF AvgBelow(history, 6) THEN 2
    ELSE 0

\* updateLOD: Math.max(0, Math.floor(-Math.log2(viewport.zoom)))
baseLOD(zoom) == Max(0, CoarserSteps(zoom[1], zoom[2]))

\* LODManager.updateLOD(renderer, viewport) at performance.now() = currentTime
UpdateLOD(currentTime, zoom) ==
    LET deltaTime == currentTime - lastFrameTime
        history == IF lastFrameTime > 0 THEN pushFrame(frameHistory, deltaTime)
                                        ELSE frameHistory
        finalLOD == Min(baseLOD(zoom) + lodBias(history), maxLODLevel)
    IN  /\ currentTime <= MaxPerfTime
        /\ frameHistory' = history
        /\ lastFrameTime' = currentTime
        /\ lodResult' = [zoom |-> zoom, lod |-> finalLOD]
        /\ UNCHANGED coreVars
        /\ UNCHANGED <<preloadVars, predictVars, identityVars, devVars, frustumVars,
                   shellVars>>

\* LODManager.resetPerformanceHistory
ResetPerformanceHistory ==
    /\ frameHistory # <<>>
    /\ frameHistory' = <<>>
    /\ lodResult' = [zoom |-> <<>>, lod |-> 0]
    /\ UNCHANGED lastFrameTime
    /\ UNCHANGED coreVars
    /\ UNCHANGED <<preloadVars, predictVars, identityVars, devVars, frustumVars,
                   shellVars>>

InitLod ==
    /\ IdleProcessor
    /\ IdleAux
    /\ InitTier
    /\ imageMetadata = MetadataLevels(PredictImage[1], PredictImage[2])
    /\ InitRenderer
    /\ IdleCull

NextLod ==
    \/ \E delta \in FrameDeltas, zoom \in LodZooms :
           UpdateLOD(lastFrameTime + delta, zoom)
    \/ ResetPerformanceHistory

SpecLod == InitLod /\ [][NextLod]_vars

\* the bias the frame rate asks for: 2 below 60% of the target, 1 below
\* 80%, 0 otherwise
ExpectedBias ==
    IF AvgBelow(frameHistory, 6) THEN 2
    ELSE IF AvgBelow(frameHistory, 8) THEN 1
    ELSE 0

\* C30: updateLOD returns min(baseLOD + bias, maxLevel), with bias 0 at an
\* average frame rate of 80% of the target or more, 1 below 80% and 2
\* below 60%; the result is never finer than the zoom-based level.
C30_BiasFollowsFrameRate ==
    lodResult.zoom # <<>> =>
        /\ lodResult.lod = Min(baseLOD(lodResult.zoom) + ExpectedBias, maxLODLevel)
        /\ lodResult.lod >= Min(baseLOD(lodResult.zoom), maxLODLevel)

\* the last conjunct alone: the result is never finer than the zoom-based
\* level
C30_NeverFinerThanZoomLevel ==
    lodResult.zoom # <<>> =>
        lodResult.lod >= Min(baseLOD(lodResult.zoom), maxLODLevel)

\* ------------------------------------------------ tiered accounting

RECURSIVE SumSizes(_)
SumSizes(chunks) ==
    IF chunks = {} THEN 0
    ELSE LET c == CHOOSE c \in chunks : TRUE
         IN  chunkMeta[c].size + SumSizes(chunks \ {c})

GpuResident == { c \in TierChunks : chunkMeta[c].state = "GPU_TEXTURE" }

BufferHolders == { c \in TierChunks : chunkMeta[c].buffer }

\* C32: whenever no allocate call is waiting at its await, gpuTextureCount
\* is the number of chunks in GPU_TEXTURE state, gpuMemoryUsed is the sum
\* of their sizes, and cpuMemoryUsed is the sum of the sizes of the chunks
\* that hold a CPU buffer.
C32_AccountingMatchesEntries ==
    suspended = {} =>
        /\ gpuTextureCount = Cardinality(GpuResident)
        /\ gpuMemoryUsed = SumSizes(GpuResident)
        /\ cpuMemoryUsed = SumSizes(BufferHolders)

\* ------------------------------------------------ level 0 of a descriptor

\* C33: every descriptor returned for a source image has at least one
\* level, and total_chunks >= 1, also when the smaller side of the
\* source is at or below min_size.
C33_DescriptorHasLevel0 ==
    \A n \in DOMAIN responses :
        responses[n].status = "success" =>
            /\ Len(responses[n].levels) >= 1
            /\ responses[n].total_chunks >= 1

\* where a first level exists, it is level 0 of the pyramid built from the
\* source: the pyramid's first level has the dimensions of the source
C33_FirstLevelIsTheSource ==
    \A n \in DOMAIN responses :
        ( responses[n].status = "success" /\ Len(responses[n].levels) >= 1 ) =>
            /\ responses[n].levels[1].level = 0
            /\ built.pyramid_levels[1].width = source.width
            /\ built.pyramid_levels[1].height = source.height

\* ------------------------------------------------ App.vue message bridge

\* The message events one run delivers to handleMessage.
MaxMessages == 3

\* App.vue: frontendUrl
frontendUrl == "http://localhost:5173"

Origins == {frontendUrl, "http://localhost:8080"}

\* the data of a message event: an object with type and requestId, or a
\* value with no properties to read (null), for which object is FALSE
MessageData ==
    [ object : {TRUE}, type : {"SELECT_FILE", "OPEN_URL"}, requestId : {1, 2} ]
    \cup { [object |-> FALSE, type |-> "", requestId |-> 0] }

MessageEvents == [ origin : Origins, data : MessageData ]

\* the cases of handleMessage's switch
KnownTypes == {"SELECT_FILE"}

\* `${type}_RESPONSE`
ResponseType(type) == type \o "_RESPONSE"

Reply(n, type, error, requestId) ==
    [to |-> n, type |-> type, error |-> error, requestId |-> requestId]

\* the Tauri runtime sets window.__TAURI__ and window.__TAURI_IPC__
TauriInjected ==
    /\ ~tauriInjected
    /\ tauriInjected' = TRUE
    /\ UNCHANGED <<tauriLoaded, received, awaiting, apiCalls, replies>>
    /\ UNCHANGED coreVars
    /\ UNCHANGED <<preloadVars, predictVars, identityVars, devVars, frustumVars, lodVars>>

\* checkTauri, run at mount and then by its timer every 100 ms until the
\* API is there
checkTauri ==
    /\ ~tauriLoaded
    /\ tauriLoaded' = tauriInjected
    /\ UNCHANGED <<tauriInjected, received, awaiting, apiCalls, replies>>
    /\ UNCHANGED coreVars
    /\ UNCHANGED <<preloadVars, predictVars, identityVars, devVars, frustumVars, lodVars>>

\* handleMessage(event), up to its first await or its end.  Reading
\* requestId of, or destructuring, a data that is no object throws before
\* any reply is posted.
handleMessage(event) ==
    LET n == Len(received) + 1
        data == event.data
    IN  /\ n <= MaxMessages
        /\ received' = Append(received, [ origin |-> event.origin, data |-> data,
                                          ready |-> tauriLoaded ])
        /\ IF event.origin # frontendUrl
           THEN UNCHANGED <<awaiting, apiCalls, replies>>
           ELSE IF ~tauriLoaded
           THEN /\ replies' = IF data.object
                              THEN Append(replies, Reply(n, "ERROR", "Tauri API not ready",
                                                         data.requestId))
                              ELSE replies
                /\ UNCHANGED <<awaiting, apiCalls>>
           ELSE IF ~data.object
           THEN UNCHANGED <<awaiting, apiCalls, replies>>
           ELSE IF data.type \in KnownTypes
           THEN /\ awaiting' = awaiting \cup {n}
                /\ apiCalls' = Append(apiCalls, [for |-> n, loaded |-> tauriLoaded])
                /\ UNCHANGED replies
           ELSE /\ replies' = Append(replies, Reply(n, "ERROR", "Unknown message type",
                                                    data.requestId))
                /\ UNCHANGED <<awaiting, apiCalls>>
        /\ UNCHANGED <<tauriInjected, tauriLoaded>>
        /\ UNCHANGED coreVars
        /\ UNCHANGED <<preloadVars, predictVars, identityVars, devVars, frustumVars, lodVars>>

\* how a dialog.open call ends
DialogOutcomes == {"selected", "cancelled", "throws"}

\* handleMessage after `await dialog.open(payload)`: the response, or the
\* catch block
DialogSettles(n, outcome) ==
    /\ n \in awaiting
    /\ awaiting' = awaiting \ {n}
    /\ replies' = Append(replies,
         IF outcome = "throws"
         THEN Reply(n, "ERROR", "dialog failed", received[n].data.requestId)
         ELSE Reply(n, ResponseType(received[n].data.type), "", received[n].data.requestId))
    /\ UNCHANGED <<tauriInjected, tauriLoaded, received, apiCalls>>
    /\ UNCHANGED coreVars
    /\ UNCHANGED <<preloadVars, predictVars, identityVars, devVars, frustumVars, lodVars>>

\* the component mounted: checkTauri has run once
InitShell ==
    /\ IdleProcessor
    /\ IdlePreload
    /\ IdlePredict
    /\ IdleIdentity
    /\ IdleDev
    /\ IdleFrustum
    /\ IdleLod
    /\ InitTier
    /\ imageMetadata = <<>>
    /\ InitRenderer
    /\ IdleCull
    /\ tauriInjected \in BOOLEAN
    /\ tauriLoaded = tauriInjected
    /\ received = <<>>
    /\ awaiting = {}
    /\ apiCalls = <<>>
    /\ replies = <<>>

NextShell ==
    \/ TauriInjected
    \/ checkTauri
    \/ \E event \in MessageEvents : handleMessage(event)
    \/ \E n \in 1..MaxMessages, outcome \in DialogOutcomes : DialogSettles(n, outcome)

SpecShell == InitShell /\ [][NextShell]_vars

RepliesTo(n) == { i \in DOMAIN replies : replies[i].to = n }

\* a handled message has its one reply, of the type the bridge owes it
AnsweredOnce(n) ==
    LET m == received[n]
    IN  IF n \in awaiting
        THEN RepliesTo(n) = {}
        ELSE /\ Cardinality(RepliesTo(n)) = 1
             /\ \A i \in RepliesTo(n) :
                    /\ replies[i].requestId = m.data.requestId
                    /\ replies[i].type =
                         IF ~m.ready \/ m.data.type \notin KnownTypes
                            \/ replies[i].error # ""
                         THEN "ERROR" ELSE ResponseType(m.data.type)

ForeignIgnored(n) ==
    /\ RepliesTo(n) = {}
    /\ \A i \in DOMAIN apiCalls : apiCalls[i].for # n

\* C34: a message of another origin causes no reply and no Tauri API call;
\* every message of the frontend's origin gets exactly one reply with its
\* requestId, ERROR when the API is not ready, the type is unknown or the
\* call throws, and <type>_RESPONSE otherwise; no Tauri API is called
\* before tauriLoaded is true, and tauriLoaded never becomes false again.
C34_EveryMessageAnsweredOnce ==
    /\ [](\A n \in DOMAIN received :
             IF received[n].origin = frontendUrl
             THEN AnsweredOnce(n) ELSE ForeignIgnored(n))
    /\ [](\A i \in DOMAIN apiCalls : apiCalls[i].loaded)
    /\ [][tauriLoaded => tauriLoaded']_vars

\* the same for the messages whose data is an object
C34_RequestObjectsAnsweredOnce ==
    /\ [](\A n \in DOMAIN received :
             IF received[n].origin = frontendUrl
             THEN received[n].data.object => AnsweredOnce(n)
             ELSE ForeignIgnored(n))
    /\ [](\A i \in DOMAIN apiCalls : apiCalls[i].loaded)
    /\ [][tauriLoaded => tauriLoaded']_vars

====
